---- MODULE Spec2Model ----
(***************************************************************************)
(* Chunked-analysis pipeline of the epistemic engine server:              *)
(*   - countWords / segmentText        (server/processing.ts)             *)
(*   - getAICompletion provider chain  (server/ai-service.ts)             *)
(*   - the four chunked module analyzers and their synthesis step         *)
(*     (server/processing.ts)                                             *)
(* Texts are sequences of one-character strings.  Scores are integers in  *)
(* tenths (0.5 is 5, 1.0 is 10); an average is kept as the exact fraction *)
(* num/den, so no rounding is introduced by the model.                    *)
(***************************************************************************)
EXTENDS Integers, Sequences, FiniteSets, TLC

\* ------------------------------------------------------------------ bounds
\* Longest input text (characters) given to segmentText in SpecSegment.
MaxTextLen == 6
\* Largest maxWords argument given to segmentText in SpecSegment.
MaxWordsArg == 2
\* Stand-in for the 10,000-word cap of POST /api/analyze (routes.ts:111),
\* scaled like ChunkWords.
WordLimit == 10
\* Stand-in for the 50,000-character cap of analyzeRequestSchema.text.
MaxChars == 50
\* Stand-in for the 2000-word chunk limit the module analyzers pass to
\* segmentText (processing.ts:177, 242, 304, 373), scaled to the short texts
\* of the model.
ChunkWords == 2

\* ------------------------------------------------------------- characters
NL == "\n"
Space == " "
Dot == "."
Letters == {"a", "b"}
Whitespace == {Space, NL}
Terminators == {Dot}
Alphabet == Letters \cup Whitespace \cup Terminators

RECURSIVE TextsOfLen(_)
TextsOfLen(n) ==
    IF n = 0 THEN {<<>>}
    ELSE {Append(t, c) : t \in TextsOfLen(n - 1), c \in Alphabet}

Texts == UNION {TextsOfLen(n) : n \in 0..MaxTextLen}

\* ---------------------------------------------------------- string helpers
\* String.prototype.trim: strip leading and trailing whitespace.
RECURSIVE TrimLeft(_)
TrimLeft(s) ==
    IF Len(s) > 0 /\ s[1] \in Whitespace THEN TrimLeft(Tail(s)) ELSE s

RECURSIVE TrimRight(_)
TrimRight(s) ==
    IF Len(s) > 0 /\ s[Len(s)] \in Whitespace
    THEN TrimRight(SubSeq(s, 1, Len(s) - 1))
    ELSE s

Trim(s) == TrimRight(TrimLeft(s))

\* String.prototype.split on a regex matching maximal runs of the characters
\* in sep (/\s+/, /[.!?]+/, /\n\n+|\n/): the pieces between the runs, empty
\* pieces at either end included.
RECURSIVE SplitFrom(_, _, _, _, _)
SplitFrom(s, sep, i, cur, inSep) ==
    IF i > Len(s) THEN <<cur>>
    ELSE IF s[i] \in sep
         THEN IF inSep THEN SplitFrom(s, sep, i + 1, cur, TRUE)
              ELSE <<cur>> \o SplitFrom(s, sep, i + 1, <<>>, TRUE)
         ELSE SplitFrom(s, sep, i + 1, Append(cur, s[i]), FALSE)

SplitRuns(s, sep) == SplitFrom(s, sep, 1, <<>>, FALSE)

NonBlank(p) == Len(Trim(p)) > 0

\* Array.prototype.join.
RECURSIVE Join(_, _)
Join(parts, sep) ==
    IF Len(parts) = 0 THEN <<>>
    ELSE IF Len(parts) = 1 THEN parts[1]
    ELSE parts[1] \o sep \o Join(Tail(parts), sep)

\* countWords: text.trim().split(/\s+/).filter(w => w.length > 0).length
countWords(t) ==
    Len(SelectSeq(SplitRuns(Trim(t), Whitespace), LAMBDA w : Len(w) > 0))

\* ---------------------------------------------------------------- segmenter
ParagraphJoin == <<NL, NL>>
SentenceJoin == <<Dot, Space>>

\* The inner loop of segmentText over the sentences of one oversized
\* paragraph; returns the segments list after the final flush.
RECURSIVE SentenceLoop(_, _, _, _, _, _)
SentenceLoop(sentences, i, segs, buf, cnt, maxW) ==
    IF i > Len(sentences)
    THEN IF Len(buf) > 0
         THEN Append(segs, Join(buf, SentenceJoin) \o <<Dot>>)
         ELSE segs
    ELSE LET sentence == sentences[i]
             sentenceWords == countWords(sentence)
         IN  IF cnt + sentenceWords > maxW /\ Len(buf) > 0
             THEN SentenceLoop(sentences, i + 1,
                               Append(segs, Join(buf, SentenceJoin) \o <<Dot>>),
                               <<Trim(sentence)>>, sentenceWords, maxW)
             ELSE SentenceLoop(sentences, i + 1, segs,
                               Append(buf, Trim(sentence)),
                               cnt + sentenceWords, maxW)

SplitSentences(paragraph) ==
    SelectSeq(SplitRuns(paragraph, Terminators), NonBlank)

\* ParagraphLoop with the flush test taken before the paragraph is counted
\* (cnt > maxW in place of cnt + paragraphWords > maxW).
RECURSIVE ParagraphLoopLateFlush(_, _, _, _, _, _)
ParagraphLoopLateFlush(paragraphs, i, segs, cur, cnt, maxW) ==
    IF i > Len(paragraphs)
    THEN IF Len(cur) > 0 THEN Append(segs, Join(cur, ParagraphJoin)) ELSE segs
    ELSE LET paragraph == paragraphs[i]
             paragraphWords == countWords(paragraph)
         IN  IF paragraphWords > maxW
             THEN LET flushed == IF Len(cur) > 0
                                 THEN Append(segs, Join(cur, ParagraphJoin))
                                 ELSE segs
                  IN  ParagraphLoopLateFlush(paragraphs, i + 1,
                          SentenceLoop(SplitSentences(paragraph), 1, flushed,
                                       <<>>, 0, maxW),
                          <<>>, 0, maxW)
             ELSE IF cnt > maxW /\ Len(cur) > 0
                  THEN ParagraphLoopLateFlush(paragraphs, i + 1,
                                     Append(segs, Join(cur, ParagraphJoin)),
                                     <<Trim(paragraph)>>, paragraphWords, maxW)
                  ELSE ParagraphLoopLateFlush(paragraphs, i + 1, segs,
                                     Append(cur, Trim(paragraph)),
                                     cnt + paragraphWords, maxW)

\* The outer loop of segmentText over the paragraphs.
RECURSIVE ParagraphLoop(_, _, _, _, _, _)
ParagraphLoop(paragraphs, i, segs, cur, cnt, maxW) ==
    IF i > Len(paragraphs)
    THEN IF Len(cur) > 0 THEN Append(segs, Join(cur, ParagraphJoin)) ELSE segs
    ELSE LET paragraph == paragraphs[i]
             paragraphWords == countWords(paragraph)
         IN  IF paragraphWords > maxW
             THEN LET flushed == IF Len(cur) > 0
                                 THEN Append(segs, Join(cur, ParagraphJoin))
                                 ELSE segs
                  IN  ParagraphLoop(paragraphs, i + 1,
                          SentenceLoop(SplitSentences(paragraph), 1, flushed,
                                       <<>>, 0, maxW),
                          <<>>, 0, maxW)
             ELSE IF cnt + paragraphWords > maxW /\ Len(cur) > 0
                  THEN ParagraphLoop(paragraphs, i + 1,
                                     Append(segs, Join(cur, ParagraphJoin)),
                                     <<Trim(paragraph)>>, paragraphWords, maxW)
                  ELSE ParagraphLoop(paragraphs, i + 1, segs,
                                     Append(cur, Trim(paragraph)),
                                     cnt + paragraphWords, maxW)

SplitParagraphs(t) == SelectSeq(SplitRuns(t, {NL}), NonBlank)

\* segmentText with the short-text test written < instead of <=.
segmentTextStrictLimit(t, maxW) ==
    IF countWords(t) < maxW THEN <<t>>
    ELSE ParagraphLoop(SplitParagraphs(t), 1, <<>>, <<>>, 0, maxW)

segmentText(t, maxW) ==
    IF countWords(t) <= maxW THEN <<t>>
    ELSE ParagraphLoop(SplitParagraphs(t), 1, <<>>, <<>>, 0, maxW)

\* ------------------------------------------------- backend reply contents
\* A backend reply is a sequence of tokens: a code fence, the "json" tag that
\* may follow the opening fence, whitespace, free prose, or one JSON document
\* (kind "payload") whose parsed value is the token's body.
NoBody == [none |-> TRUE]
FenceTok == [kind |-> "fence", body |-> NoBody]
JsonTagTok == [kind |-> "jsontag", body |-> NoBody]
NewlineTok == [kind |-> "ws", body |-> NoBody]
ProseTok == [kind |-> "prose", body |-> NoBody]
Payload(b) == [kind |-> "payload", body |-> b]

RECURSIVE TrimTokLeft(_)
TrimTokLeft(c) ==
    IF Len(c) > 0 /\ c[1].kind = "ws" THEN TrimTokLeft(Tail(c)) ELSE c

RECURSIVE TrimTokRight(_)
TrimTokRight(c) ==
    IF Len(c) > 0 /\ c[Len(c)].kind = "ws"
    THEN TrimTokRight(SubSeq(c, 1, Len(c) - 1))
    ELSE c

TrimTok(c) == TrimTokRight(TrimTokLeft(c))

\* cleanJSONResponse: trim; if the whole text is one fenced block
\* (/^```(?:json)?\s*\n?([\s\S]*?)\n?```$/) return the trimmed inside.
cleanJSONResponse(c) ==
    LET cleaned == TrimTok(c)
    IN  IF /\ Len(cleaned) >= 2
           /\ cleaned[1].kind = "fence"
           /\ cleaned[Len(cleaned)].kind = "fence"
        THEN LET inner == SubSeq(cleaned, 2, Len(cleaned) - 1)
                 body == IF Len(inner) > 0 /\ inner[1].kind = "jsontag"
                         THEN Tail(inner) ELSE inner
             IN  TrimTok(body)
        ELSE cleaned

\* ------------------------------------------------------ completion gateway
Providers == {"anthropic", "openai", "deepseek"}
providerChain == <<"anthropic", "openai", "deepseek">>
DefaultProvider == "anthropic"

\* sortedProviders without the filter: the preferred provider is put in front
\* of the whole chain.
sortedProvidersUnfiltered(preferred) == <<preferred>> \o providerChain

\* sortedProviders = [preferred, ...providerChain.filter(p => p !== preferred)]
sortedProvidersOf(preferred) ==
    <<preferred>> \o SelectSeq(providerChain, LAMBDA p : p # preferred)

\* What a backend call can do: throw (network, quota), answer with text, or
\* (Anthropic) answer with a first content block that is not text.
BackendErrors == {"timeout", "rate limited"}

\* The value of get<Provider>Completion for a backend outcome o.
ProviderResult(p, o) ==
    IF o.kind = "error" THEN [ok |-> FALSE, text |-> <<>>, msg |-> o.msg]
    ELSE IF p = "anthropic"
    THEN IF o.kind = "text"
         THEN [ok |-> TRUE, text |-> cleanJSONResponse(o.content), msg |-> ""]
         ELSE [ok |-> FALSE, text |-> <<>>,
               msg |-> "Unexpected response format from Anthropic"]
    ELSE IF o.kind = "text" /\ Len(o.content) > 0
         THEN [ok |-> TRUE, text |-> cleanJSONResponse(o.content), msg |-> ""]
         ELSE [ok |-> FALSE, text |-> <<>>,
               msg |-> IF p = "openai" THEN "No response from OpenAI"
                       ELSE "No response from DeepSeek"]

AllFailedPrefix == "All AI providers failed. Last error: "

\* --------------------------------------------------------- module analyzers
Modules == {"inference", "justification", "utility", "integrity"}

\* JSON.parse of a reply text: whitespace around one JSON document is
\* accepted, anything else is a SyntaxError.
JSONParse(c) ==
    LET t == TrimTok(c)
    IN  IF Len(t) = 1 /\ t[1].kind = "payload"
        THEN [ok |-> TRUE, value |-> t[1].body]
        ELSE [ok |-> FALSE, value |-> NoBody]

\* The JSON value null: reading a property of it throws a TypeError.
JNull == [null |-> TRUE]

\* An optional JSON member is <<>> when absent (or null) and <<v>> when
\* present.  Coalesce is `x ?? d`; for arrays, which are never falsy, it is
\* `x || d` as well.
Coalesce(o, d) == IF o = <<>> THEN d ELSE o[1]

\* `x || d` for a string member: the empty string is falsy too.
OrDefault(o, d) == IF o = <<>> \/ o[1] = "" THEN d ELSE o[1]

\* `x || d` for a number member: 0 is falsy too.
NumberOrDefault(o, d) == IF o = <<>> \/ o[1] = 0 THEN d ELSE o[1]

\* `o?.member` for an optional object o.
JudgmentMember(body, m) ==
    IF body.judgment = <<>> THEN <<>> ELSE body.judgment[1][m]

ReportMember(body, m) ==
    IF body.judgmentReport = <<>> THEN <<>> ELSE body.judgmentReport[1][m]

BlockMember(body, m) ==
    IF body.diagnostic_block = <<>> THEN <<>> ELSE body.diagnostic_block[1][m]

\* A score is the exact fraction num/den of tenths; a value read from a
\* reply has den 1, an average of n values has den n, and 0/0 is NaN.
Frac(n) == [num |-> n, den |-> 1]

Metrics == {"RealityAnchor", "CausalDepth", "Friction", "Compression",
            "SimulationIndex", "LevelCoherence", "CompositeScore"}

\* The value each process<Module>Chunk builds from the parsed reply.
processEpistemicInferenceChunk(body) ==
    [arguments |-> Coalesce(body.arguments, <<>>),
     judgment |->
        [coherenceScore |->
            Frac(Coalesce(JudgmentMember(body, "coherenceScore"), 5)),
         issues |-> Coalesce(JudgmentMember(body, "issues"), <<>>)],
     overallCoherence |->
        Frac(Coalesce(body.overallCoherence,
                      Coalesce(JudgmentMember(body, "coherenceScore"), 5)))]

processJustificationBuilderChunk(body) ==
    [detectedClaims |-> Coalesce(body.detectedClaims, <<>>),
     justificationChains |-> Coalesce(body.justificationChains, <<>>),
     coherenceScore |-> Frac(Coalesce(body.coherenceScore, 5)),
     weaknesses |-> Coalesce(body.weaknesses, <<>>)]

processKnowledgeUtilityChunk(body) ==
    [operativeKnowledge |-> Coalesce(body.operativeKnowledge, <<>>),
     utilityMappings |-> Coalesce(body.utilityMappings, <<>>),
     judgmentReport |->
        [limitations |-> Coalesce(ReportMember(body, "limitations"), <<>>)],
     utilityRank |-> Frac(Coalesce(body.utilityRank, 50))]

processCognitiveIntegrityChunk(body) ==
    [diagnostic_block |->
        [m \in Metrics \cup {"IntegrityType"} |->
            IF m = "IntegrityType"
            THEN OrDefault(BlockMember(body, m), "Unknown")
            ELSE Frac(Coalesce(BlockMember(body, m), 5))]]

ProcessChunk(module, body) ==
    CASE module = "inference" -> processEpistemicInferenceChunk(body)
      [] module = "justification" -> processJustificationBuilderChunk(body)
      [] module = "utility" -> processKnowledgeUtilityChunk(body)
      [] module = "integrity" -> processCognitiveIntegrityChunk(body)

\* Array.prototype.flatMap with the duplicates of earlier entries dropped.
RECURSIVE flatMapDedup(_)
flatMapDedup(lists) ==
    IF Len(lists) = 0 THEN <<>>
    ELSE LET front == flatMapDedup(SubSeq(lists, 1, Len(lists) - 1))
         IN  front \o SelectSeq(lists[Len(lists)],
                 LAMBDA x : \A i \in 1..Len(front) : front[i] # x)

\* chunkResults.flatMap(r => r.<list>): the lists, concatenated in order.
RECURSIVE flatMap(_)
flatMap(lists) ==
    IF Len(lists) = 0 THEN <<>>
    ELSE flatMap(SubSeq(lists, 1, Len(lists) - 1)) \o lists[Len(lists)]

RECURSIVE SumNum(_)
SumNum(scores) ==
    IF Len(scores) = 0 THEN 0
    ELSE SumNum(SubSeq(scores, 1, Len(scores) - 1)) + scores[Len(scores)].num

\* chunkResults.reduce((sum, r) => sum + r.<score>, 0) / chunkResults.length
average(scores) == [num |-> SumNum(scores), den |-> Len(scores)]

\* avg > k and avg >= k for k in tenths; both are false of NaN.
Gt(f, k) == f.den > 0 /\ f.num > k * f.den
Ge(f, k) == f.den > 0 /\ f.num >= k * f.den

Field(results, f) == [i \in 1..Len(results) |-> results[i][f]]

\* The object each process<Module> returns after its loop.
synthesizeEpistemicInference(results) ==
    LET avgCoherence == average(Field(results, "overallCoherence"))
    IN  [arguments |-> flatMap(Field(results, "arguments")),
         judgment |->
            [coherenceScore |-> avgCoherence,
             issues |-> flatMap(Field(Field(results, "judgment"), "issues"))],
         logicalSoundness |->
            IF Gt(avgCoherence, 7) THEN "Sound"
            ELSE IF Gt(avgCoherence, 5) THEN "Moderate" ELSE "Weak",
         overallCoherence |-> avgCoherence]

\* synthesizeJustificationBuilder with >= in place of > in the label.
synthesizeJustificationBuilderInclusive(results) ==
    LET avgCoherence == average(Field(results, "coherenceScore"))
    IN  [detectedClaims |-> flatMap(Field(results, "detectedClaims")),
         justificationChains |-> flatMap(Field(results, "justificationChains")),
         coherenceScore |-> avgCoherence,
         completeness |->
            IF Ge(avgCoherence, 7) THEN "Complete"
            ELSE IF Ge(avgCoherence, 5) THEN "Moderately complete"
            ELSE "Incomplete",
         weaknesses |-> flatMap(Field(results, "weaknesses"))]

synthesizeJustificationBuilder(results) ==
    LET avgCoherence == average(Field(results, "coherenceScore"))
    IN  [detectedClaims |-> flatMap(Field(results, "detectedClaims")),
         justificationChains |-> flatMap(Field(results, "justificationChains")),
         coherenceScore |-> avgCoherence,
         completeness |->
            IF Gt(avgCoherence, 7) THEN "Complete"
            ELSE IF Gt(avgCoherence, 5) THEN "Moderately complete"
            ELSE "Incomplete",
         weaknesses |-> flatMap(Field(results, "weaknesses"))]

synthesizeKnowledgeUtility(results) ==
    LET avgUtilityRank == average(Field(results, "utilityRank"))
    IN  [operativeKnowledge |-> flatMap(Field(results, "operativeKnowledge")),
         utilityMappings |-> flatMap(Field(results, "utilityMappings")),
         judgmentReport |->
            [limitations |->
                flatMap(Field(Field(results, "judgmentReport"), "limitations")),
             transformativePotential |->
                IF Gt(avgUtilityRank, 70) THEN "high"
                ELSE IF Gt(avgUtilityRank, 50) THEN "moderate" ELSE "limited"],
         utilityRank |-> avgUtilityRank]

\* synthesizeCognitiveIntegrity with the first chunk's label kept, as the
\* other modules keep chunkResults[0]'s reasoningType and depth.
synthesizeCognitiveIntegrityFirstLabel(results) ==
    LET blocks == Field(results, "diagnostic_block")
    IN  [diagnostic_block |->
            [m \in Metrics \cup {"IntegrityType"} |->
                IF m = "IntegrityType"
                THEN IF Len(blocks) = 0 THEN "Multi-Chunk Analysis"
                     ELSE blocks[1][m]
                ELSE average(Field(blocks, m))]]

synthesizeCognitiveIntegrity(results) ==
    LET blocks == Field(results, "diagnostic_block")
        avgCompositeScore == average(Field(blocks, "CompositeScore"))
    IN  [diagnostic_block |->
            [m \in Metrics \cup {"IntegrityType"} |->
                IF m = "IntegrityType"
                THEN IF Ge(avgCompositeScore, 8)
                     THEN "High-Integrity Source (Synthesized)"
                     ELSE IF Ge(avgCompositeScore, 5)
                     THEN "Authentic Partial (Synthesized)"
                     ELSE "Requires Conceptual Reconstruction (Synthesized)"
                ELSE average(Field(blocks, m))]]

Synthesize(module, results) ==
    CASE module = "inference" -> synthesizeEpistemicInference(results)
      [] module = "justification" -> synthesizeJustificationBuilder(results)
      [] module = "utility" -> synthesizeKnowledgeUtility(results)
      [] module = "integrity" -> synthesizeCognitiveIntegrity(results)

\* chunkResults[0].judgment... and chunkResults[0].judgmentReport... throw a
\* TypeError when the loop collected no result.
SynthesisThrows(module, results) ==
    Len(results) = 0 /\ module \in {"inference", "utility"}

\* -------------------------------------------------------------------- state
VARIABLES
    segPc,      \* "ready" before the segmentText call, "done" after it
    text,       \* segmentText's text argument
    maxWords,   \* segmentText's maxWords argument
    segments,   \* the list segmentText returned
    caller,     \* who reads the replies: "none", "direct" or a module name
    gwPc,       \* getAICompletion: "idle", "loop", "inflight", "returned", "thrown"
    preferredProvider,
    sortedProviders,
    gwIdx,      \* position of the for-of loop in sortedProviders (1-based)
    lastError,  \* <<>> for null, else <<message>>
    inflight,   \* providers whose backend call has been issued and not settled
    attempts,   \* history: providers invoked by this call, in order
    completed,  \* history: the settled provider calls of this call, in order
    gwResult,   \* the returned text, or the thrown error's message parts
    modPc,      \* process<Module>: "off", "start", "single", "awaitSingle",
                \* "loop", "await", "done", "failed"
    chunks,     \* const chunks = segmentText(text, 2000)
    chunkIdx,   \* the loop index i, 1-based
    chunkResults,
    modResult,  \* <<>> until the call returns, then <<the returned object>>
    modError,   \* <<>> until the call throws, then the error's message parts
    callLog,    \* history: the chunk calls started, returned and failed
    detPc,      \* detectArgument: "off", "start", "await", "done"
    detResult,  \* <<>> until detectArgument returns, then <<the object>>
    detCalls,   \* history: getAICompletion calls made by detectArgument
    stPc,       \* extractStanceTokens: "off", "start", "await", "done"
    stText,     \* its text argument, as the patterns the text matches
    stLocals,   \* <<>>, then <<the sub-scorer results and their average>>
    stResult,   \* <<>> until it returns, then <<the StanceTokens>>
    stCalls,    \* history: getAICompletion calls made by extractStanceWithAI
    rtPc,       \* POST /api/analyze: "off", "validate", "detect", "gate",
                \* "module", "save", "respond", "sent"
    moduleType, \* the request's moduleType
    response,   \* <<>> until the handler answers, then <<the response>>
    saveLog,    \* history: the storage.saveAnalysis calls and their outcome
    referenceIds,   \* the request's referenceIds
    alignRewrite,   \* the request's alignRewrite
    contLocals,     \* processCognitiveContinuity: references and summary
    embedLog,   \* history: the calls of the embedding backend
    alPc,       \* computeDoctrineAlignment: "off", the dimension being
                \* checked, "clamp", "done"
    alStance,   \* its stanceTokens argument
    alDoctrines,    \* its doctrines argument: key -> <<>> or <<value>>
    alScore,    \* let score
    alConflicts,    \* const conflicts
    alAlignments,   \* const alignments
    alMismatch  \* const mismatchDetails: dimension -> <<>> or <<detail>>

segVars == <<segPc, text, maxWords, segments>>
gwVars == <<caller, gwPc, preferredProvider, sortedProviders, gwIdx, lastError,
            inflight, attempts, completed, gwResult>>
modVars == <<modPc, chunks, chunkIdx, chunkResults, modResult, modError,
             callLog>>
detVars == <<detPc, detResult, detCalls>>
stVars == <<stPc, stText, stLocals, stResult, stCalls>>
rtVars == <<rtPc, moduleType, response, saveLog>>
contVars == <<referenceIds, alignRewrite, contLocals, embedLog>>
alVars == <<alPc, alStance, alDoctrines, alScore, alConflicts, alAlignments,
            alMismatch>>
reqVars == <<detVars, stVars, rtVars, contVars, alVars>>
vars == <<segVars, gwVars, modVars, reqVars>>

SegIdle ==
    /\ segPc = "off"
    /\ text = <<>>
    /\ maxWords = 1
    /\ segments = <<>>

GwIdle ==
    /\ gwPc = "idle"
    /\ preferredProvider = DefaultProvider
    /\ sortedProviders = <<>>
    /\ gwIdx = 1
    /\ lastError = <<>>
    /\ inflight = {}
    /\ attempts = <<>>
    /\ completed = <<>>
    /\ gwResult = <<>>

ModIdle ==
    /\ modPc = "off"
    /\ chunks = <<>>
    /\ chunkIdx = 1
    /\ chunkResults = <<>>
    /\ modResult = <<>>
    /\ modError = <<>>
    /\ callLog = <<>>

DetIdle ==
    /\ detPc = "off"
    /\ detResult = <<>>
    /\ detCalls = <<>>

StIdle ==
    /\ stPc = "off"
    /\ stText = <<>>
    /\ stLocals = <<>>
    /\ stResult = <<>>
    /\ stCalls = <<>>

RtIdle ==
    /\ rtPc = "off"
    /\ moduleType = "none"
    /\ response = <<>>
    /\ saveLog = <<>>

ContIdle ==
    /\ referenceIds = <<>>
    /\ alignRewrite = FALSE
    /\ contLocals = <<>>
    /\ embedLog = <<>>

AlIdle ==
    /\ alPc = "off"
    /\ alStance = <<>>
    /\ alDoctrines = <<>>
    /\ alScore = <<>>
    /\ alConflicts = <<>>
    /\ alAlignments = <<>>
    /\ alMismatch = <<>>

ReqIdle == DetIdle /\ StIdle /\ RtIdle /\ ContIdle /\ AlIdle

\* ------------------------------------------------------- SpecSegment: a call
InitSegment ==
    /\ segPc = "ready"
    /\ text \in Texts
    /\ maxWords \in 1..MaxWordsArg
    /\ segments = <<>>
    /\ caller = "none"
    /\ GwIdle
    /\ ModIdle
    /\ ReqIdle

Segment ==
    /\ segPc = "ready"
    /\ segments' = segmentText(text, maxWords)
    /\ segPc' = "done"
    /\ UNCHANGED <<text, maxWords, gwVars, modVars, reqVars>>

NextSegment == Segment

SpecSegment == InitSegment /\ [][NextSegment]_vars

\* ------------------------------------------------- getAICompletion, by step
GenericBodies == {[answer |-> <<"p">>], [answer |-> <<"q">>]}

\* Replies to the module prompts.  An absent member is <<>>; scores are in
\* tenths and include values outside the declared range.
ListP == <<"p">>
ListQP == <<"q", "p">>

InferenceBodies ==
    {[arguments |-> aj[1], judgment |-> aj[2], overallCoherence |-> o] :
       aj \in {<< <<>>, <<>> >>,
               << <<ListP>>, <<[coherenceScore |-> <<>>, issues |-> <<>>]>> >>,
               << <<ListQP>>,
                  <<[coherenceScore |-> <<6>>, issues |-> <<ListP>>]>> >>,
               << <<ListP>>,
                  <<[coherenceScore |-> <<13>>, issues |-> <<ListQP>>]>> >>},
       o \in {<<>>, <<8>>, <<-2>>}}

JustificationBodies ==
    {[detectedClaims |-> l[1], justificationChains |-> l[2],
      weaknesses |-> l[3], coherenceScore |-> c] :
       l \in {<< <<>>, <<>>, <<>> >>,
              << <<ListP>>, <<ListQP>>, <<>> >>,
              << <<ListQP>>, <<ListP>>, <<ListP>> >>},
       c \in {<<>>, <<6>>, <<8>>, <<13>>}}

UtilityBodies ==
    {[operativeKnowledge |-> l[1], utilityMappings |-> l[2],
      judgmentReport |-> l[3], utilityRank |-> u] :
       l \in {<< <<>>, <<>>, <<>> >>,
              << <<ListP>>, <<ListQP>>, <<[limitations |-> <<>>]>> >>,
              << <<ListQP>>, <<ListP>>, <<[limitations |-> <<ListQP>>]>> >>,
              << <<>>, <<ListP>>, <<[limitations |-> <<ListP>>]>> >>},
       u \in {<<>>, <<70>>, <<120>>}}

Block(metric, label) ==
    [m \in Metrics \cup {"IntegrityType"} |->
        IF m = "IntegrityType" THEN label ELSE metric[m]]

IntegrityBodies ==
    {[diagnostic_block |-> <<>>]}
    \cup {[diagnostic_block |-> <<Block([m \in Metrics |-> v], t)>>] :
            v \in {<<>>, <<3>>, <<9>>}, t \in {<<>>, <<"Authentic Source">>}}
    \cup {[diagnostic_block |->
            <<Block([m \in Metrics |-> IF m = odd THEN <<13>> ELSE <<6>>],
                    <<>>)>>] : odd \in Metrics}

\* Replies to the argument-detection prompt; confidence is in hundredths.
DetectBodies ==
    {[isArgumentative |-> a, confidence |-> c, reasoning |-> r] :
       a \in {<<>>, <<TRUE>>, <<FALSE>>},
       c \in {<<>>, <<90>>, <<30>>},
       r \in {<<>>, <<"Purely descriptive">>}}

\* Replies to the alignment-summary prompt of processCognitiveContinuity.
ContinuityBodies == {[alignmentPoints |-> <<>>], [alignmentPoints |-> <<ListQP>>]}

\* Replies to the stance-extraction prompt: nothing, a full answer, an answer
\* with values outside the prompt's lists and a confidence of 1.5, and an
\* answer with an empty string and a confidence of 0.  Confidence in tenths.
StanceBodies ==
    {[law_kind |-> <<>>, explanation_order |-> <<>>, dn_commitment |-> <<>>,
      regularity_role |-> <<>>, confidence |-> <<>>],
     [law_kind |-> <<"probabilistic_nomic">>,
      explanation_order |-> <<"instance_to_law">>,
      dn_commitment |-> <<"reject">>, regularity_role |-> <<"surface">>,
      confidence |-> <<8>>],
     [law_kind |-> <<"humean">>, explanation_order |-> <<"law_to_instance">>,
      dn_commitment |-> <<"undecided">>, regularity_role |-> <<"surface">>,
      confidence |-> <<15>>],
     [law_kind |-> <<"">>, explanation_order |-> <<>>,
      dn_commitment |-> <<"accept">>, regularity_role |-> <<"foundational">>,
      confidence |-> <<0>>]}

ModuleBodies ==
    CASE caller = "detect" -> DetectBodies
      [] caller = "stance" -> StanceBodies
      [] caller = "continuity" -> ContinuityBodies
      [] caller = "inference" -> InferenceBodies
      [] caller = "justification" -> JustificationBodies
      [] caller = "utility" -> UtilityBodies
      [] caller = "integrity" -> IntegrityBodies

FirstBody == CHOOSE b \in ModuleBodies : TRUE

\* The reply texts the backend may give to the current caller.
ReplyContents ==
    IF caller = "direct"
    THEN {<<Payload(b)>> : b \in GenericBodies}
         \cup {<<FenceTok, JsonTagTok, NewlineTok,
                 Payload([answer |-> <<"p">>]), NewlineTok, FenceTok>>,
               <<ProseTok>>, <<>>}
    ELSE {<<Payload(b)>> : b \in ModuleBodies}
         \cup {<<FenceTok, JsonTagTok, NewlineTok, Payload(FirstBody),
                 NewlineTok, FenceTok>>,
               <<FenceTok, Payload(FirstBody), FenceTok, ProseTok>>,
               <<ProseTok>>, <<>>, <<Payload(JNull)>>}

BackendOutcomes ==
    {[kind |-> "error", msg |-> m] : m \in BackendErrors}
    \cup {[kind |-> "text", content |-> c] : c \in ReplyContents}
    \cup {[kind |-> "nontext"]}

\* Entry of getAICompletion(options, preferred): the locals before the loop.
GwEnter(preferred) ==
    /\ gwPc' = "loop"
    /\ preferredProvider' = preferred
    /\ sortedProviders' = sortedProvidersOf(preferred)
    /\ gwIdx' = 1
    /\ lastError' = <<>>
    /\ inflight' = {}
    /\ attempts' = <<>>
    /\ completed' = <<>>
    /\ gwResult' = <<>>

\* A direct call of getAICompletion with an explicit preferred provider.
GwCall ==
    /\ caller = "direct"
    /\ gwPc = "idle"
    /\ \E preferred \in Providers : GwEnter(preferred)
    /\ UNCHANGED <<caller, segVars, reqVars, modVars>>

\* The loop body up to the await: the switch issues the provider's call.
GwInvoke ==
    /\ gwPc = "loop"
    /\ gwIdx <= Len(sortedProviders)
    /\ inflight' = inflight \cup {sortedProviders[gwIdx]}
    /\ attempts' = Append(attempts, sortedProviders[gwIdx])
    /\ gwPc' = "inflight"
    /\ UNCHANGED <<caller, preferredProvider, sortedProviders, gwIdx,
                   lastError, completed, gwResult, segVars, reqVars, modVars>>

\* GwProviderSucceeds without the return: the loop goes on to the next
\* provider after a success.
GwProviderSucceedsNoReturn ==
    /\ gwPc = "inflight"
    /\ \E o \in BackendOutcomes :
         LET p == sortedProviders[gwIdx]
             r == ProviderResult(p, o)
         IN  /\ r.ok
             /\ gwResult' = r.text
             /\ completed' = Append(completed, [provider |-> p, result |-> r])
             /\ inflight' = inflight \ {p}
             /\ gwIdx' = gwIdx + 1
             /\ gwPc' = IF gwIdx < Len(sortedProviders) THEN "loop" ELSE "returned"
    /\ UNCHANGED <<caller, preferredProvider, sortedProviders,
                   lastError, attempts, segVars, reqVars, modVars>>

\* The awaited provider call resolves: return its text.
GwProviderSucceeds ==
    /\ gwPc = "inflight"
    /\ \E o \in BackendOutcomes :
         LET p == sortedProviders[gwIdx]
             r == ProviderResult(p, o)
         IN  /\ r.ok
             /\ gwResult' = r.text
             /\ completed' = Append(completed, [provider |-> p, result |-> r])
             /\ inflight' = inflight \ {p}
             /\ gwPc' = "returned"
    /\ UNCHANGED <<caller, preferredProvider, sortedProviders, gwIdx,
                   lastError, attempts, segVars, reqVars, modVars>>

\* GwProviderFails keeping the first error instead of the last.
GwProviderFailsKeepFirst ==
    /\ gwPc = "inflight"
    /\ \E o \in BackendOutcomes :
         LET p == sortedProviders[gwIdx]
             r == ProviderResult(p, o)
         IN  /\ ~r.ok
             /\ lastError' = IF lastError = <<>> THEN <<r.msg>> ELSE lastError
             /\ completed' = Append(completed, [provider |-> p, result |-> r])
             /\ inflight' = inflight \ {p}
             /\ gwIdx' = gwIdx + 1
             /\ gwPc' = "loop"
    /\ UNCHANGED <<caller, preferredProvider, sortedProviders,
                   attempts, gwResult, segVars, reqVars, modVars>>

\* The awaited provider call rejects: catch, remember the error, next provider.
GwProviderFails ==
    /\ gwPc = "inflight"
    /\ \E o \in BackendOutcomes :
         LET p == sortedProviders[gwIdx]
             r == ProviderResult(p, o)
         IN  /\ ~r.ok
             /\ lastError' = <<r.msg>>
             /\ completed' = Append(completed, [provider |-> p, result |-> r])
             /\ inflight' = inflight \ {p}
             /\ gwIdx' = gwIdx + 1
             /\ gwPc' = "loop"
    /\ UNCHANGED <<caller, preferredProvider, sortedProviders,
                   attempts, gwResult, segVars, reqVars, modVars>>

\* The loop ran out of providers: throw "All AI providers failed. ...".
GwAllFailed ==
    /\ gwPc = "loop"
    /\ gwIdx > Len(sortedProviders)
    /\ gwPc' = "thrown"
    /\ gwResult' = <<AllFailedPrefix, lastError[1]>>
    /\ UNCHANGED <<caller, preferredProvider, sortedProviders, gwIdx,
                   lastError, inflight, attempts, completed, segVars, reqVars, modVars>>

GwStep ==
    \/ GwInvoke
    \/ GwProviderSucceeds
    \/ GwProviderFails
    \/ GwAllFailed

InitGateway ==
    /\ SegIdle
    /\ caller = "direct"
    /\ GwIdle
    /\ ModIdle
    /\ ReqIdle

NextGateway == GwCall \/ GwStep

SpecGateway == InitGateway /\ [][NextGateway]_vars

\* ------------------------------------------------ process<Module>, by step
\* Input texts of the module calls: one chunk, two paragraph chunks, three
\* sentence chunks, and a text of punctuation only.
TextOneChunk == <<"a", Space, "b">>
TextTwoParagraphs == <<"a", Space, "b", NL, "b", Space, "a">>
TextThreeSentences ==
    <<"a", Space, "b", Dot, Space, "b", Space, "a", Dot, Space, "a">>
TextPunctuation == <<Dot, Space, Dot, Space, Dot, Space, Dot>>

ModuleTexts ==
    {TextOneChunk, TextTwoParagraphs, TextThreeSentences, TextPunctuation}

\* The gateway call is over: its locals are gone.
GwLeave ==
    /\ gwPc' = "idle"
    /\ preferredProvider' = DefaultProvider
    /\ sortedProviders' = <<>>
    /\ gwIdx' = 1
    /\ lastError' = <<>>
    /\ inflight' = {}
    /\ attempts' = <<>>
    /\ completed' = <<>>
    /\ gwResult' = <<>>

\* const chunks = segmentText(text, 2000); if (chunks.length === 1) ...
ModEnter ==
    /\ modPc = "start"
    /\ caller \in Modules
    /\ chunks' = segmentText(text, ChunkWords)
    /\ modPc' = IF Len(chunks') = 1 THEN "single" ELSE "loop"
    /\ UNCHANGED <<chunkIdx, chunkResults, modResult, modError, callLog,
                   segVars, reqVars, gwVars>>

\* return process<Module>Chunk(text): the gateway call for the whole text.
ChunkCallSingle ==
    /\ modPc = "single"
    /\ gwPc = "idle"
    /\ GwEnter(DefaultProvider)
    /\ callLog' = Append(callLog, [ev |-> "start", chunk |-> 1, sent |-> text])
    /\ modPc' = "awaitSingle"
    /\ UNCHANGED <<caller, chunks, chunkIdx, chunkResults, modResult, modError,
                   segVars, reqVars>>

\* ChunkCall taking the chunks from the end of the list.
ChunkCallReversed ==
    /\ modPc = "loop"
    /\ chunkIdx <= Len(chunks)
    /\ gwPc = "idle"
    /\ GwEnter(DefaultProvider)
    /\ callLog' = Append(callLog, [ev |-> "start", chunk |-> chunkIdx,
                                   sent |-> chunks[Len(chunks) + 1 - chunkIdx]])
    /\ modPc' = "await"
    /\ UNCHANGED <<caller, chunks, chunkIdx, chunkResults, modResult, modError,
                   segVars, reqVars>>

\* await process<Module>Chunk(chunks[i]): the gateway call for chunk i.
ChunkCall ==
    /\ modPc = "loop"
    /\ chunkIdx <= Len(chunks)
    /\ gwPc = "idle"
    /\ GwEnter(DefaultProvider)
    /\ callLog' = Append(callLog, [ev |-> "start", chunk |-> chunkIdx,
                                   sent |-> chunks[chunkIdx]])
    /\ modPc' = "await"
    /\ UNCHANGED <<caller, chunks, chunkIdx, chunkResults, modResult, modError,
                   segVars, reqVars>>

ReplyParses ==
    /\ JSONParse(gwResult).ok
    /\ JSONParse(gwResult).value # JNull

\* The gateway returned and the reply parsed: the chunk's result object.
\* Single-chunk call: it is the module's result.
ChunkReturnsSingle ==
    /\ modPc = "awaitSingle"
    /\ gwPc = "returned"
    /\ ReplyParses
    /\ LET r == ProcessChunk(caller, JSONParse(gwResult).value)
       IN  /\ modResult' = <<r>>
           /\ callLog' = Append(callLog,
                                [ev |-> "end", chunk |-> 1, result |-> r])
    /\ modPc' = "done"
    /\ GwLeave
    /\ UNCHANGED <<caller, chunks, chunkIdx, chunkResults, modError, segVars, reqVars>>

\* Multi-chunk call: chunkResults.push(result); i++.
ChunkReturns ==
    /\ modPc = "await"
    /\ gwPc = "returned"
    /\ ReplyParses
    /\ LET r == ProcessChunk(caller, JSONParse(gwResult).value)
       IN  /\ chunkResults' = Append(chunkResults, r)
           /\ callLog' = Append(callLog,
                                [ev |-> "end", chunk |-> chunkIdx, result |-> r])
    /\ chunkIdx' = chunkIdx + 1
    /\ modPc' = "loop"
    /\ GwLeave
    /\ UNCHANGED <<caller, chunks, modResult, modError, segVars, reqVars>>

ParseError ==
    IF JSONParse(gwResult).ok THEN <<"TypeError">> ELSE <<"SyntaxError">>

\* ChunkParseFails with the error caught and the chunk skipped.
ChunkParseFailsSkipsChunk ==
    /\ modPc \in {"await", "awaitSingle"}
    /\ gwPc = "returned"
    /\ ~ReplyParses
    /\ callLog' = Append(callLog, [ev |-> "fail", chunk |-> chunkIdx,
                                   error |-> ParseError])
    /\ chunkIdx' = chunkIdx + 1
    /\ modPc' = IF modPc = "await" THEN "loop" ELSE "failed"
    /\ modError' = IF modPc = "await" THEN modError ELSE ParseError
    /\ GwLeave
    /\ UNCHANGED <<caller, chunks, chunkResults, modResult, segVars, reqVars>>

\* JSON.parse(response) throws, or the reply is null and reading its members
\* throws: nothing catches it, the module call rejects.
ChunkParseFails ==
    /\ modPc \in {"await", "awaitSingle"}
    /\ gwPc = "returned"
    /\ ~ReplyParses
    /\ callLog' = Append(callLog, [ev |-> "fail", chunk |-> chunkIdx,
                                   error |-> ParseError])
    /\ modPc' = "failed"
    /\ modError' = ParseError
    /\ GwLeave
    /\ UNCHANGED <<caller, chunks, chunkIdx, chunkResults, modResult, segVars, reqVars>>

\* getAICompletion threw: nothing catches it, the module call rejects.
ChunkBackendFails ==
    /\ modPc \in {"await", "awaitSingle"}
    /\ gwPc = "thrown"
    /\ callLog' = Append(callLog, [ev |-> "fail", chunk |-> chunkIdx,
                                   error |-> gwResult])
    /\ modPc' = "failed"
    /\ modError' = gwResult
    /\ GwLeave
    /\ UNCHANGED <<caller, chunks, chunkIdx, chunkResults, modResult, segVars, reqVars>>

\* The loop is over: build and return the synthesized object.
SynthesizeResults ==
    /\ modPc = "loop"
    /\ chunkIdx > Len(chunks)
    /\ ~SynthesisThrows(caller, chunkResults)
    /\ modResult' = <<Synthesize(caller, chunkResults)>>
    /\ modPc' = "done"
    /\ UNCHANGED <<chunks, chunkIdx, chunkResults, modError, callLog,
                   segVars, reqVars, gwVars>>

\* The loop is over and building the object throws.
SynthesizeFails ==
    /\ modPc = "loop"
    /\ chunkIdx > Len(chunks)
    /\ SynthesisThrows(caller, chunkResults)
    /\ modPc' = "failed"
    /\ modError' = <<"TypeError">>
    /\ UNCHANGED <<chunks, chunkIdx, chunkResults, modResult, callLog,
                   segVars, reqVars, gwVars>>

InitModule ==
    /\ segPc = "off"
    /\ text \in ModuleTexts
    /\ maxWords = ChunkWords
    /\ segments = <<>>
    /\ caller \in Modules
    /\ GwIdle
    /\ modPc = "start"
    /\ chunks = <<>>
    /\ chunkIdx = 1
    /\ chunkResults = <<>>
    /\ modResult = <<>>
    /\ modError = <<>>
    /\ callLog = <<>>
    /\ ReqIdle

NextModule ==
    \/ ModEnter
    \/ ChunkCallSingle
    \/ ChunkCall
    \/ GwStep
    \/ ChunkReturnsSingle
    \/ ChunkReturns
    \/ ChunkParseFails
    \/ ChunkBackendFails
    \/ SynthesizeResults
    \/ SynthesizeFails

SpecModule == InitModule /\ [][NextModule]_vars

\* ------------------------------------------------ detectArgument, by step
\* Characters of the texts given to detectArgument.  \w of the marker regex
\* is a letter, a digit or "_"; /i compares letters without case.
LowerLetters ==
    {"a", "b", "c", "d", "e", "f", "g", "h", "i", "j", "k", "l", "m", "n",
     "o", "p", "q", "r", "s", "t", "u", "v", "w", "x", "y", "z"}
UpperLetters == {"A", "H", "S", "T", "U"}
Hyphen == "-"

toLowerCase(c) ==
    CASE c = "A" -> "a" [] c = "H" -> "h" [] c = "S" -> "s"
      [] c = "T" -> "t" [] c = "U" -> "u" [] OTHER -> c

IsWordChar(c) == c \in LowerLetters \cup UpperLetters

\* The alternatives of
\* /\b(therefore|thus|hence|consequently|because|since|as|implies|suggests?|
\*     indicates?|shows?|proves?|demonstrates?|leads? to|causes?|results? in)\b/i
InferenceMarkers ==
    {<<"t", "h", "e", "r", "e", "f", "o", "r", "e">>,
     <<"t", "h", "u", "s">>,
     <<"h", "e", "n", "c", "e">>,
     <<"c", "o", "n", "s", "e", "q", "u", "e", "n", "t", "l", "y">>,
     <<"b", "e", "c", "a", "u", "s", "e">>,
     <<"s", "i", "n", "c", "e">>,
     <<"a", "s">>,
     <<"i", "m", "p", "l", "i", "e", "s">>,
     <<"s", "u", "g", "g", "e", "s", "t">>,
     <<"s", "u", "g", "g", "e", "s", "t", "s">>,
     <<"i", "n", "d", "i", "c", "a", "t", "e">>,
     <<"i", "n", "d", "i", "c", "a", "t", "e", "s">>,
     <<"s", "h", "o", "w">>,
     <<"s", "h", "o", "w", "s">>,
     <<"p", "r", "o", "v", "e">>,
     <<"p", "r", "o", "v", "e", "s">>,
     <<"d", "e", "m", "o", "n", "s", "t", "r", "a", "t", "e">>,
     <<"d", "e", "m", "o", "n", "s", "t", "r", "a", "t", "e", "s">>,
     <<"l", "e", "a", "d", " ", "t", "o">>,
     <<"l", "e", "a", "d", "s", " ", "t", "o">>,
     <<"c", "a", "u", "s", "e">>,
     <<"c", "a", "u", "s", "e", "s">>,
     <<"r", "e", "s", "u", "l", "t", " ", "i", "n">>,
     <<"r", "e", "s", "u", "l", "t", "s", " ", "i", "n">>}

\* The marker m occurs in t at position i, between two word boundaries.
MarkerAt(t, m, i) ==
    /\ i + Len(m) - 1 <= Len(t)
    /\ \A k \in 1..Len(m) : toLowerCase(t[i + k - 1]) = m[k]
    /\ IF i = 1 THEN TRUE ELSE ~IsWordChar(t[i - 1])
    /\ IF i + Len(m) - 1 = Len(t) THEN TRUE ELSE ~IsWordChar(t[i + Len(m)])

hasInferenceMarkers(t) ==
    \E i \in 1..Len(t) : \E m \in InferenceMarkers : MarkerAt(t, m, i)

\* The three objects detectArgument builds; confidence in hundredths.
DetectMarkerResult ==
    [isArgumentative |-> TRUE, confidence |-> 90,
     reasoning |-> "Contains explicit inference markers"]

DetectParsedResult(body) ==
    [isArgumentative |-> Coalesce(body.isArgumentative, TRUE),
     confidence |-> Coalesce(body.confidence, 50),
     reasoning |-> Coalesce(body.reasoning, "Unable to determine")]

DetectUnavailableResult ==
    [isArgumentative |-> TRUE, confidence |-> 50,
     reasoning |-> "Detection service unavailable, proceeding with analysis"]

\* Input texts: empty, with a marker (plain, capitalised, upper case, before
\* punctuation, after a hyphen, two-word), and without one (no marker word, a
\* marker inside a longer word, a two-word marker broken by a second space).
DetectTexts ==
    {<<>>,
     <<"a", "s">>,
     <<"T", "h", "u", "s", Space, "a">>,
     <<"b", Space, "A", "S", Dot>>,
     <<"a", Hyphen, "a", "s">>,
     <<"l", "e", "a", "d", "s", Space, "t", "o">>,
     <<"a", Space, "b">>,
     <<"g", "a", "s">>,
     <<"a", "s", "k">>,
     <<"l", "e", "a", "d", Space, Space, "t", "o">>,
     <<Dot, Space, NL>>}

\* The heuristic found a marker: return without calling the gateway.
DetectHeuristic ==
    /\ detPc = "start"
    /\ hasInferenceMarkers(text)
    /\ detResult' = <<DetectMarkerResult>>
    /\ detPc' = "done"
    /\ UNCHANGED <<alVars, detCalls, stVars, rtVars, contVars, segVars, gwVars, modVars>>

\* DetectCall without the marker test in front of it.
DetectCallUnguarded ==
    /\ detPc = "start"
    /\ gwPc = "idle"
    /\ caller' = "detect"
    /\ GwEnter(DefaultProvider)
    /\ detCalls' = Append(detCalls, [state |-> "pending"])
    /\ detPc' = "await"
    /\ UNCHANGED <<alVars, detResult, stVars, rtVars, contVars, segVars, modVars>>

\* No marker: await getAICompletion with the detection prompts.
DetectCall ==
    /\ detPc = "start"
    /\ ~hasInferenceMarkers(text)
    /\ gwPc = "idle"
    /\ caller' = "detect"
    /\ GwEnter(DefaultProvider)
    /\ detCalls' = Append(detCalls, [state |-> "pending"])
    /\ detPc' = "await"
    /\ UNCHANGED <<alVars, detResult, stVars, rtVars, contVars, segVars, modVars>>

\* The gateway returned and the reply parsed: the reply's members, defaulted.
DetectReturns ==
    /\ detPc = "await"
    /\ gwPc = "returned"
    /\ ReplyParses
    /\ detResult' = <<DetectParsedResult(JSONParse(gwResult).value)>>
    /\ detCalls' = [detCalls EXCEPT ![Len(detCalls)] =
                        [state |-> "returned", reply |-> gwResult]]
    /\ detPc' = "done"
    /\ GwLeave
    /\ UNCHANGED <<alVars, caller, stVars, rtVars, contVars, segVars, modVars>>

\* DetectFails with the error passed on to the caller.
DetectFailsRethrows ==
    /\ detPc = "await"
    /\ gwPc = "thrown" \/ (gwPc = "returned" /\ ~ReplyParses)
    /\ detCalls' = [detCalls EXCEPT ![Len(detCalls)] =
                        [state |-> IF gwPc = "thrown" THEN "thrown"
                                   ELSE "unparsable",
                         reply |-> gwResult]]
    /\ detPc' = "failed"
    /\ GwLeave
    /\ UNCHANGED <<alVars, caller, detResult, stVars, rtVars, contVars, segVars, modVars>>

\* getAICompletion threw, JSON.parse threw, or the reply was null: the catch
\* block returns the permissive default.
DetectFails ==
    /\ detPc = "await"
    /\ gwPc = "thrown" \/ (gwPc = "returned" /\ ~ReplyParses)
    /\ detResult' = <<DetectUnavailableResult>>
    /\ detCalls' = [detCalls EXCEPT ![Len(detCalls)] =
                        [state |-> IF gwPc = "thrown" THEN "thrown"
                                   ELSE "unparsable",
                         reply |-> gwResult]]
    /\ detPc' = "done"
    /\ GwLeave
    /\ UNCHANGED <<alVars, caller, stVars, rtVars, contVars, segVars, modVars>>

DetectStep ==
    \/ DetectHeuristic
    \/ DetectCall
    \/ DetectReturns
    \/ DetectFails

InitDetect ==
    /\ segPc = "off"
    /\ text \in DetectTexts
    /\ maxWords = 1
    /\ segments = <<>>
    /\ caller = "none"
    /\ GwIdle
    /\ ModIdle
    /\ detPc = "start"
    /\ detResult = <<>>
    /\ detCalls = <<>>
    /\ StIdle
    /\ RtIdle
    /\ ContIdle
    /\ AlIdle

NextDetect == DetectStep \/ GwStep

SpecDetect == InitDetect /\ [][NextDetect]_vars

\* ----------------------------------------- processCognitiveContinuity, by step
NoReferencesMessage ==
    "No reference texts selected. Please select at least one reference text to compare against."

\* The result returned before any backend is called.
ContinuityEmptyResult(message) ==
    [referenceSet |-> <<>>, compositeScore |-> Frac(5),
     alignmentSummary |-> <<message>>, continuityRewrite |-> <<>>]

\* The result after the embeddings and the alignment summary.
ContinuityResult(locals, rewrite) ==
    [referenceSet |-> locals.refs, compositeScore |-> locals.score,
     alignmentSummary |-> locals.summary, continuityRewrite |-> rewrite]

\* if (referenceIds.length === 0) return {...}
ContNoReferences ==
    /\ modPc = "start"
    /\ caller = "continuity"
    /\ referenceIds = <<>>
    /\ modResult' = <<ContinuityEmptyResult(NoReferencesMessage)>>
    /\ modPc' = "done"
    /\ UNCHANGED <<chunks, chunkIdx, chunkResults, modError, callLog,
                   segVars, reqVars, gwVars>>

\* await Promise.all(referenceIds.map(id => storage.getAnalysisById(id))):
\* the record is found, is not there (undefined, which the !== null filter
\* keeps), or the query rejects.
ContLoadReferences ==
    /\ modPc = "start"
    /\ caller = "continuity"
    /\ referenceIds # <<>>
    /\ \E o \in {"found", "missing", "throws"} :
         IF o = "throws"
         THEN /\ modPc' = "failed"
              /\ modError' = <<"storage error">>
              /\ UNCHANGED contLocals
         ELSE /\ modPc' = "embedTarget"
              /\ contLocals' = <<[loaded |-> o, refs |-> <<>>,
                                  score |-> Frac(0), summary |-> <<>>]>>
              /\ UNCHANGED modError
    /\ UNCHANGED <<alVars, chunks, chunkIdx, chunkResults, modResult, callLog,
                   segVars, detVars, stVars, rtVars, referenceIds,
                   alignRewrite, embedLog, gwVars>>

\* await getEmbedding(...) resolves, for the target text and then for the
\* reference.  With the reference missing the loop skips it and building the
\* summary context reads ref.inputText of undefined.
ContEmbedSucceeds ==
    /\ modPc \in {"embedTarget", "embedRef"}
    /\ embedLog' = Append(embedLog, [input |-> modPc, ok |-> TRUE])
    /\ IF modPc = "embedTarget"
       THEN IF contLocals[1].loaded = "found"
            THEN /\ modPc' = "embedRef"
                 /\ UNCHANGED <<alVars, contLocals, modError>>
            ELSE /\ modPc' = "failed"
                 /\ modError' = <<"TypeError">>
                 /\ UNCHANGED contLocals
       ELSE /\ \E similarity \in {Frac(3), Frac(9)} :
                 contLocals' = <<[contLocals[1] EXCEPT
                                    !.refs = referenceIds,
                                    !.score = similarity]>>
            /\ modPc' = "alignCall"
            /\ UNCHANGED modError
    /\ UNCHANGED <<alVars, chunks, chunkIdx, chunkResults, modResult, callLog,
                   segVars, detVars, stVars, rtVars, referenceIds,
                   alignRewrite, gwVars>>

\* await getEmbedding(...) rejects: the module call rejects.
ContEmbedFails ==
    /\ modPc \in {"embedTarget", "embedRef"}
    /\ embedLog' = Append(embedLog, [input |-> modPc, ok |-> FALSE])
    /\ modPc' = "failed"
    /\ modError' = <<"embedding error">>
    /\ UNCHANGED <<alVars, chunks, chunkIdx, chunkResults, modResult, callLog,
                   segVars, detVars, stVars, rtVars, referenceIds,
                   alignRewrite, contLocals, gwVars>>

\* await getAICompletion for the alignment summary, then for the rewrite.
ContCall ==
    /\ modPc \in {"alignCall", "rewriteCall"}
    /\ gwPc = "idle"
    /\ GwEnter(DefaultProvider)
    /\ callLog' = Append(callLog, [ev |-> "start", chunk |-> 1, sent |-> text])
    /\ modPc' = IF modPc = "alignCall" THEN "alignAwait" ELSE "rewriteAwait"
    /\ UNCHANGED <<caller, chunks, chunkIdx, chunkResults, modResult, modError,
                   segVars, reqVars>>

\* The summary reply: parsed.alignmentPoints || ["Analysis generated"], or
\* the start of the raw reply when parsing throws.
AlignmentSummaryOf(reply) ==
    IF JSONParse(reply).ok /\ JSONParse(reply).value # JNull
    THEN IF JSONParse(reply).value.alignmentPoints = <<>>
         THEN <<"Analysis generated">>
         ELSE JSONParse(reply).value.alignmentPoints[1]
    ELSE <<"raw reply">>

ContAlignReturns ==
    /\ modPc = "alignAwait"
    /\ gwPc = "returned"
    /\ contLocals' = <<[contLocals[1] EXCEPT
                          !.summary = AlignmentSummaryOf(gwResult)]>>
    /\ IF alignRewrite
       THEN /\ modPc' = "rewriteCall"
            /\ UNCHANGED modResult
       ELSE /\ modPc' = "done"
            /\ modResult' = <<ContinuityResult(contLocals'[1], <<>>)>>
    /\ GwLeave
    /\ UNCHANGED <<alVars, caller, chunks, chunkIdx, chunkResults, modError, callLog,
                   segVars, detVars, stVars, rtVars, referenceIds,
                   alignRewrite, embedLog>>

ContRewriteReturns ==
    /\ modPc = "rewriteAwait"
    /\ gwPc = "returned"
    /\ modResult' = <<ContinuityResult(contLocals[1], <<gwResult>>)>>
    /\ modPc' = "done"
    /\ GwLeave
    /\ UNCHANGED <<caller, chunks, chunkIdx, chunkResults, modError, callLog,
                   segVars, reqVars>>

\* getAICompletion threw: the module call rejects.
ContBackendFails ==
    /\ modPc \in {"alignAwait", "rewriteAwait"}
    /\ gwPc = "thrown"
    /\ modPc' = "failed"
    /\ modError' = gwResult
    /\ GwLeave
    /\ UNCHANGED <<caller, chunks, chunkIdx, chunkResults, modResult, callLog,
                   segVars, reqVars>>

ContinuityStep ==
    \/ ContNoReferences
    \/ ContLoadReferences
    \/ ContEmbedSucceeds
    \/ ContEmbedFails
    \/ ContCall
    \/ ContAlignReturns
    \/ ContRewriteReturns
    \/ ContBackendFails

\* ------------------------------------------------- POST /api/analyze, by step
ModuleTypes ==
    {"epistemic-inference", "justification-builder",
     "knowledge-utility-mapper", "cognitive-integrity", "cognitive-continuity"}

\* The analyzer the switch picks for a module type.
AnalyzerOf(type) ==
    CASE type = "epistemic-inference" -> "inference"
      [] type = "justification-builder" -> "justification"
      [] type = "knowledge-utility-mapper" -> "utility"
      [] type = "cognitive-integrity" -> "integrity"
      [] type = "cognitive-continuity" -> "continuity"

\* n copies of the word w, one space between them.
Words(n, w) == Join([i \in 1..n |-> w], <<Space>>)

\* Request texts: empty; short with and without an inferential marker; two
\* paragraphs that need two chunks; punctuation only; one word over the word
\* cap, in short words (within the character cap) and in long words (over
\* it).
TextWithMarker == <<"a", "s">>
TextPlain == <<"a", Space, "b">>
TextChunked == <<"a", "s", NL>> \o Words(ChunkWords, <<"a">>)
TextOverlong == Words(WordLimit + 1, <<"a">>)
TextOverlongWide == Words(WordLimit + 1, <<"a", "b", "a", "b", "a">>)

RouteTexts ==
    {<<>>, TextWithMarker, TextPlain, TextChunked, TextPunctuation,
     TextOverlong, TextOverlongWide}

\* analyzeRequestSchema.safeParse(req.body).success
SchemaAccepts(t, type) ==
    /\ Len(t) >= 1
    /\ Len(t) <= MaxChars
    /\ type \in ModuleTypes

\* A response: HTTP status and the members of the JSON body; an absent member
\* is <<>>.
Reply(status, success, code, wordCount, isArg, result, error) ==
    [status |-> status, success |-> success, code |-> code,
     wordCount |-> wordCount, isArgumentative |-> isArg, result |-> result,
     error |-> error]

\* The request body does not fit the schema: 400 VALIDATION_ERROR.
RouteRejectInvalid ==
    /\ rtPc = "validate"
    /\ ~SchemaAccepts(text, moduleType)
    /\ response' = <<Reply(400, FALSE, "VALIDATION_ERROR", <<>>, <<>>, <<>>,
                           <<"Invalid request format">>)>>
    /\ rtPc' = "sent"
    /\ UNCHANGED <<alVars, moduleType, saveLog, detVars, stVars, contVars, segVars,
                   gwVars, modVars>>

\* wordCount > 10000: 400 OVERLENGTH.
RouteRejectOverlength ==
    /\ rtPc = "validate"
    /\ SchemaAccepts(text, moduleType)
    /\ countWords(text) > WordLimit
    /\ response' = <<Reply(400, FALSE, "OVERLENGTH", <<countWords(text)>>,
                           <<>>, <<>>,
                           <<"Text exceeds 10,000-word limit">>)>>
    /\ rtPc' = "sent"
    /\ UNCHANGED <<alVars, moduleType, saveLog, detVars, stVars, contVars, segVars,
                   gwVars, modVars>>

\* The request is valid and within the cap: await detectArgument(text).
RouteAccept ==
    /\ rtPc = "validate"
    /\ SchemaAccepts(text, moduleType)
    /\ countWords(text) <= WordLimit
    /\ detPc' = "start"
    /\ rtPc' = "detect"
    /\ UNCHANGED <<alVars, moduleType, response, saveLog, detResult, detCalls, stVars,
                   contVars, segVars, gwVars, modVars>>

\* GateRejects without the confidence threshold.
GateRejectsAnyConfidence == ~detResult[1].isArgumentative

GateRejects ==
    /\ ~detResult[1].isArgumentative
    /\ detResult[1].confidence > 85

\* !isArgumentative && confidence > 0.85: answer without analysing.
RouteGateRejects ==
    /\ rtPc = "detect"
    /\ detPc = "done"
    /\ GateRejects
    /\ response' = <<Reply(200, FALSE, "", <<countWords(text)>>, <<FALSE>>,
                           <<>>, <<>>)>>
    /\ rtPc' = "sent"
    /\ UNCHANGED <<alVars, moduleType, saveLog, detVars, stVars, contVars, segVars,
                   gwVars, modVars>>

\* The switch on moduleType: await the analyzer.
RouteDispatch ==
    /\ rtPc = "detect"
    /\ detPc = "done"
    /\ ~GateRejects
    /\ caller' = AnalyzerOf(moduleType)
    /\ modPc' = "start"
    /\ rtPc' = "module"
    /\ UNCHANGED <<alVars, moduleType, response, saveLog, detVars, stVars, contVars,
                   segVars, gwPc, preferredProvider, sortedProviders, gwIdx,
                   lastError, inflight, attempts, completed, gwResult,
                   chunks, chunkIdx, chunkResults, modResult, modError,
                   callLog>>

\* RouteModuleFails with a save of the failed analysis.
RouteModuleFailsSaves ==
    /\ rtPc = "module"
    /\ modPc = "failed"
    /\ saveLog' = Append(saveLog, [ok |-> TRUE, result |-> [error |-> modError]])
    /\ response' = <<Reply(500, FALSE, "PROCESSING_ERROR", <<>>, <<>>, <<>>,
                           modError)>>
    /\ rtPc' = "sent"
    /\ UNCHANGED <<alVars, moduleType, detVars, stVars, contVars, segVars,
                   gwVars, modVars>>

\* The analyzer rejected: the outer catch answers 500 PROCESSING_ERROR.
RouteModuleFails ==
    /\ rtPc = "module"
    /\ modPc = "failed"
    /\ response' = <<Reply(500, FALSE, "PROCESSING_ERROR", <<>>, <<>>, <<>>,
                           modError)>>
    /\ rtPc' = "sent"
    /\ UNCHANGED <<alVars, moduleType, saveLog, detVars, stVars, contVars, segVars,
                   gwVars, modVars>>

\* await storage.saveAnalysis({... result ...}) resolves.
RouteSaveSucceeds ==
    /\ rtPc = "module"
    /\ modPc = "done"
    /\ saveLog' = Append(saveLog, [ok |-> TRUE, result |-> modResult[1]])
    /\ rtPc' = "respond"
    /\ UNCHANGED <<alVars, moduleType, response, detVars, stVars, contVars, segVars,
                   gwVars, modVars>>

\* RouteSaveFails without the inner try/catch: the outer catch answers 500.
RouteSaveFailsUncaught ==
    /\ rtPc = "module"
    /\ modPc = "done"
    /\ saveLog' = Append(saveLog, [ok |-> FALSE, result |-> modResult[1]])
    /\ response' = <<Reply(500, FALSE, "PROCESSING_ERROR", <<>>, <<>>, <<>>,
                           <<"storage error">>)>>
    /\ rtPc' = "sent"
    /\ UNCHANGED <<alVars, moduleType, detVars, stVars, contVars, segVars, gwVars,
                   modVars>>

\* await storage.saveAnalysis(...) rejects: the inner catch logs it.
RouteSaveFails ==
    /\ rtPc = "module"
    /\ modPc = "done"
    /\ saveLog' = Append(saveLog, [ok |-> FALSE, result |-> modResult[1]])
    /\ rtPc' = "respond"
    /\ UNCHANGED <<alVars, moduleType, response, detVars, stVars, contVars, segVars,
                   gwVars, modVars>>

\* res.json({success: true, wordCount, isArgumentative: true, result, ...})
RouteRespond ==
    /\ rtPc = "respond"
    /\ response' = <<Reply(200, TRUE, "", <<countWords(text)>>, <<TRUE>>,
                           modResult, <<>>)>>
    /\ rtPc' = "sent"
    /\ UNCHANGED <<alVars, moduleType, saveLog, detVars, stVars, contVars, segVars,
                   gwVars, modVars>>

RouteStep ==
    \/ RouteRejectInvalid
    \/ RouteRejectOverlength
    \/ RouteAccept
    \/ RouteGateRejects
    \/ RouteDispatch
    \/ RouteModuleFails
    \/ RouteSaveSucceeds
    \/ RouteSaveFails
    \/ RouteRespond

InitRoute ==
    /\ segPc = "off"
    /\ text \in RouteTexts
    /\ maxWords = ChunkWords
    /\ segments = <<>>
    /\ caller = "none"
    /\ GwIdle
    /\ ModIdle
    /\ DetIdle
    /\ StIdle
    /\ rtPc = "validate"
    /\ moduleType \in ModuleTypes \cup {"unknown-module"}
    /\ response = <<>>
    /\ saveLog = <<>>
    /\ referenceIds \in {<<>>, <<"ref1">>}
    /\ alignRewrite \in BOOLEAN
    /\ (moduleType # "cognitive-continuity") =>
          (referenceIds = <<>> /\ alignRewrite = FALSE)
    /\ contLocals = <<>>
    /\ embedLog = <<>>
    /\ AlIdle

NextRoute ==
    \/ RouteStep
    \/ DetectStep
    \/ GwStep
    \/ ModEnter
    \/ ChunkCallSingle
    \/ ChunkCall
    \/ ChunkReturnsSingle
    \/ ChunkReturns
    \/ ChunkParseFails
    \/ ChunkBackendFails
    \/ SynthesizeResults
    \/ SynthesizeFails
    \/ ContinuityStep

SpecRoute == InitRoute /\ [][NextRoute]_vars

\* ------------------------------------------------------- stance extraction
\* IEEE-754 doubles near the decimal confidences.  A double is written
\* [num, den, err] and stands for (num + err / 2^57) / den: num / den is the
\* decimal it is close to (den is 10, or 40 after the division by 4) and err
\* is the rounding error.  One unit in the last place of a double in
\* [2^k, 2^(k+1)) is 2^(k-52), that is 10 * 2^(k+5) units of err for den 10.
UlpOf(num, err) ==
    IF num > 20 \/ (num = 20 /\ err >= 0) THEN 640
    ELSE IF num > 10 \/ (num = 10 /\ err >= 0) THEN 320
    ELSE IF num > 5 \/ (num = 5 /\ err >= 0) THEN 160
    ELSE IF num >= 3 THEN 80
    ELSE IF num >= 2 THEN 40
    ELSE 20

\* Round the exact value (num + err / 2^57) / 10 to the nearest double, ties
\* to the even mantissa.  2^57 is 512 modulo 1280, so the remainder of
\* num * 2^57 + err by an ulp is that of num * 512 + err.
RoundToDouble(num, err) ==
    LET ulp == UlpOf(num, err)
        r == (num * 512 + err) % ulp
        odd == ((num * 512 + err) % (2 * ulp)) >= ulp
        up == r * 2 > ulp \/ (r * 2 = ulp /\ odd)
    IN  [num |-> num, den |-> 10,
         err |-> IF num = 0 THEN 0
                 ELSE IF up THEN err - r + ulp ELSE err - r]

\* The double a decimal literal of the source denotes (0.3 is Double(3)).
Double(tenths) == RoundToDouble(tenths, 0)

\* a + b and n * a in double arithmetic.
DoubleAdd(a, b) == RoundToDouble(a.num + b.num, a.err + b.err)
DoubleTimes(n, a) == RoundToDouble(n * a.num, n * a.err)

\* a / 4 is exact.
DoubleQuarter(a) == [num |-> a.num, den |-> 4 * a.den, err |-> a.err]

DoubleLess(a, b) == a.num < b.num \/ (a.num = b.num /\ a.err < b.err)

\* Math.min(a, b)
DoubleMin(a, b) == IF DoubleLess(b, a) THEN b ELSE a

\* Math.min(0.9, 0.6 + score * 0.1)
ScoreConfidence(score) ==
    DoubleMin(Double(9), DoubleAdd(Double(6), DoubleTimes(score, Double(1))))

Max(a, b) == IF a >= b THEN a ELSE b

\* The sub-scorers, on the number of patterns of each group that the text
\* matches (patterns.filter(p => p.test(lowercaseText)).length).
extractLawKind(m) ==
    LET maxScore == Max(m.universal, Max(m.proportional, m.probabilistic))
    IN  IF maxScore = 0
        THEN [value |-> "unclear", confidence |-> Double(3)]
        ELSE IF m.universal = maxScore
        THEN [value |-> "universal_regularities",
              confidence |-> ScoreConfidence(m.universal)]
        ELSE IF m.proportional = maxScore
        THEN [value |-> "proportional_dependencies",
              confidence |-> ScoreConfidence(m.proportional)]
        ELSE [value |-> "probabilistic_nomic",
              confidence |-> ScoreConfidence(m.probabilistic)]

extractExplanationOrder(m) ==
    IF m.lawToInstance = 0 /\ m.instanceToLaw = 0
    THEN [value |-> "unclear", confidence |-> Double(3)]
    ELSE IF m.lawToInstance > m.instanceToLaw
    THEN [value |-> "law_to_instance",
          confidence |-> ScoreConfidence(m.lawToInstance)]
    ELSE [value |-> "instance_to_law",
          confidence |-> ScoreConfidence(m.instanceToLaw)]

extractDNCommitment(m) ==
    IF m.accept = 0 /\ m.reject = 0
    THEN [value |-> "neutral", confidence |-> Double(3)]
    ELSE IF m.accept > m.reject
    THEN [value |-> "accept", confidence |-> ScoreConfidence(m.accept)]
    ELSE IF m.reject > m.accept
    THEN [value |-> "reject", confidence |-> ScoreConfidence(m.reject)]
    ELSE [value |-> "neutral", confidence |-> Double(5)]

extractRegularityRole(m) ==
    IF m.foundational = 0 /\ m.surface = 0
    THEN [value |-> "unclear", confidence |-> Double(3)]
    ELSE IF m.foundational > m.surface
    THEN [value |-> "foundational",
          confidence |-> ScoreConfidence(m.foundational)]
    ELSE [value |-> "surface", confidence |-> ScoreConfidence(m.surface)]

\* (a + b + c + d) / 4, added left to right.
avgConfidenceOf(lawKind, explanationOrder, dnCommitment, regularityRole) ==
    DoubleQuarter(
        DoubleAdd(DoubleAdd(DoubleAdd(lawKind.confidence,
                                      explanationOrder.confidence),
                            dnCommitment.confidence),
                  regularityRole.confidence))

\* avgConfidence >= 0.6, for avgConfidence of den 40.
AtLeastSixTenths(avg) ==
    avg.num > 24 \/ (avg.num = 24 /\ avg.err >= 4 * Double(6).err)

\* The StanceTokens built from the four sub-scorer results.
RuleBasedTokens(locals) ==
    [law_kind |-> locals.lawKind.value,
     explanation_order |-> locals.explanationOrder.value,
     dn_commitment |-> locals.dnCommitment.value,
     regularity_role |-> locals.regularityRole.value,
     confidence |-> locals.avgConfidence]

\* The StanceTokens extractStanceWithAI builds from the parsed reply.
AITokens(body) ==
    [law_kind |-> OrDefault(body.law_kind, "unclear"),
     explanation_order |-> OrDefault(body.explanation_order, "unclear"),
     dn_commitment |-> OrDefault(body.dn_commitment, "neutral"),
     regularity_role |-> OrDefault(body.regularity_role, "unclear"),
     confidence |-> Double(NumberOrDefault(body.confidence, 5))]

\* The StanceTokens of the catch block of extractStanceWithAI.
AIFailedTokens ==
    [law_kind |-> "unclear", explanation_order |-> "unclear",
     dn_commitment |-> "neutral", regularity_role |-> "unclear",
     confidence |-> Double(3)]

\* Input texts, as the number of patterns of each group they match.
LawKindMatches ==
    {<<0, 0, 0>>, <<1, 0, 0>>, <<0, 1, 0>>, <<0, 0, 1>>, <<1, 1, 0>>,
     <<0, 2, 2>>, <<1, 2, 3>>, <<4, 0, 0>>}
PairMatches == {<<0, 0>>, <<1, 0>>, <<0, 1>>, <<1, 1>>, <<2, 1>>, <<0, 3>>}

StanceTexts ==
    {[universal |-> l[1], proportional |-> l[2], probabilistic |-> l[3],
      lawToInstance |-> e[1], instanceToLaw |-> e[2],
      accept |-> d[1], reject |-> d[2],
      foundational |-> r[1], surface |-> r[2]] :
        l \in LawKindMatches, e \in PairMatches, d \in PairMatches,
        r \in PairMatches}

\* The four rule-based extractions and their average confidence.
StanceScore ==
    /\ stPc = "start"
    /\ LET lawKind == extractLawKind(stText)
           explanationOrder == extractExplanationOrder(stText)
           dnCommitment == extractDNCommitment(stText)
           regularityRole == extractRegularityRole(stText)
       IN  stLocals' =
             <<[lawKind |-> lawKind, explanationOrder |-> explanationOrder,
                dnCommitment |-> dnCommitment,
                regularityRole |-> regularityRole,
                avgConfidence |->
                    avgConfidenceOf(lawKind, explanationOrder, dnCommitment,
                                    regularityRole)]>>
    /\ stPc' = "scored"
    /\ UNCHANGED <<alVars, stText, stResult, stCalls, detVars, rtVars, contVars,
                   segVars, gwVars, modVars>>

\* if (avgConfidence >= 0.6) return the rule-based tokens.
StanceRuleBased ==
    /\ stPc = "scored"
    /\ AtLeastSixTenths(stLocals[1].avgConfidence)
    /\ stResult' = <<RuleBasedTokens(stLocals[1])>>
    /\ stPc' = "done"
    /\ UNCHANGED <<alVars, stText, stLocals, stCalls, detVars, rtVars, contVars,
                   segVars, gwVars, modVars>>

\* return await extractStanceWithAI(text): the gateway call.
StanceCallAI ==
    /\ stPc = "scored"
    /\ ~AtLeastSixTenths(stLocals[1].avgConfidence)
    /\ gwPc = "idle"
    /\ caller' = "stance"
    /\ GwEnter(DefaultProvider)
    /\ stCalls' = Append(stCalls, [state |-> "pending"])
    /\ stPc' = "await"
    /\ UNCHANGED <<alVars, stText, stLocals, stResult, detVars, rtVars, contVars,
                   segVars, modVars>>

\* The gateway returned and the reply parsed to an object.
StanceAIReturns ==
    /\ stPc = "await"
    /\ gwPc = "returned"
    /\ ReplyParses
    /\ stResult' = <<AITokens(JSONParse(gwResult).value)>>
    /\ stCalls' = [stCalls EXCEPT ![Len(stCalls)] =
                      [state |-> "returned", reply |-> gwResult]]
    /\ stPc' = "done"
    /\ GwLeave
    /\ UNCHANGED <<alVars, caller, stText, stLocals, detVars, rtVars, contVars,
                   segVars, modVars>>

\* getAICompletion threw, JSON.parse threw, or the reply was null: the catch
\* block of extractStanceWithAI returns its default.
StanceAIFails ==
    /\ stPc = "await"
    /\ gwPc = "thrown" \/ (gwPc = "returned" /\ ~ReplyParses)
    /\ stResult' = <<AIFailedTokens>>
    /\ stCalls' = [stCalls EXCEPT ![Len(stCalls)] =
                      [state |-> IF gwPc = "thrown" THEN "thrown"
                                 ELSE "unparsable",
                       reply |-> gwResult]]
    /\ stPc' = "done"
    /\ GwLeave
    /\ UNCHANGED <<alVars, caller, stText, stLocals, detVars, rtVars, contVars,
                   segVars, modVars>>

StanceStep ==
    \/ StanceScore
    \/ StanceRuleBased
    \/ StanceCallAI
    \/ StanceAIReturns
    \/ StanceAIFails

InitStance ==
    /\ SegIdle
    /\ caller = "none"
    /\ GwIdle
    /\ ModIdle
    /\ DetIdle
    /\ stPc = "start"
    /\ stText \in StanceTexts
    /\ stLocals = <<>>
    /\ stResult = <<>>
    /\ stCalls = <<>>
    /\ RtIdle
    /\ ContIdle
    /\ AlIdle

NextStance == StanceStep \/ GwStep

SpecStance == InitStance /\ [][NextStance]_vars

\* ---------------------------------------------- doctrine alignment scoring

\* a - b in double arithmetic.  A difference of two doubles that agree in
\* their tenths is exact.
DoubleSub(a, b) ==
    LET n == a.num - b.num
        e == a.err - b.err
    IN  IF n = 0 THEN [num |-> 0, den |-> 10, err |-> e]
        ELSE IF n > 0 THEN RoundToDouble(n, e)
        ELSE LET r == RoundToDouble(-n, -e)
             IN  [num |-> -r.num, den |-> 10, err |-> -r.err]

\* Math.max(a, b)
DoubleMax(a, b) == IF DoubleLess(a, b) THEN b ELSE a

\* String.prototype.includes on sequences of characters.
Includes(s, sub) ==
    \E i \in 0..(Len(s) - Len(sub)) :
        \A k \in 1..Len(sub) : s[i + k] = sub[k]

SurfaceChars ==
    <<"s", "u", "r", "f", "a", "c", "e">>
FoundationalChars ==
    <<"f", "o", "u", "n", "d", "a", "t", "i", "o", "n", "a", "l">>
\* "surface shadow; not constitutive"
DefaultRegularityStatus ==
    <<"s", "u", "r", "f", "a", "c", "e", " ", "s", "h", "a", "d", "o", "w",
      ";", " ", "n", "o", "t", " ", "c", "o", "n", "s", "t", "i", "t", "u",
      "t", "i", "v", "e">>
\* "surface shadow"
SurfaceShadowChars ==
    <<"s", "u", "r", "f", "a", "c", "e", " ", "s", "h", "a", "d", "o", "w">>

\* The StanceTokens values of the type (the confidence is not read).
StanceTokenValues ==
    [law_kind : {"universal_regularities", "proportional_dependencies",
                 "probabilistic_nomic", "unclear"},
     explanation_order : {"law_to_instance", "instance_to_law", "unclear"},
     dn_commitment : {"accept", "reject", "neutral"},
     regularity_role : {"foundational", "surface", "unclear"}]

\* DoctrineStore values: each key absent (<<>>) or present with a string.
\* REGULARITY_STATUS is a sequence of characters, the other values are atoms.
DoctrineStores ==
    [LAW_TYPE : {<<>>, <<"">>, <<"proportional_dependencies">>,
                 <<"universal_regularities">>},
     EXPLANATION_ORDER : {<<>>, <<"instance_to_law">>, <<"law_to_instance">>},
     DN_MODEL : {<<>>, <<"rejected">>, <<"accepted">>},
     REGULARITY_STATUS : {<<>>, <<SurfaceShadowChars>>,
                          <<FoundationalChars>>}]

\* doctrines.REGULARITY_STATUS || "surface shadow; not constitutive"
RegularityOrDefault(o) ==
    IF o = <<>> THEN DefaultRegularityStatus
    ELSE IF Len(o[1]) = 0 THEN DefaultRegularityStatus
    ELSE o[1]

NoMismatchDetails ==
    [law_kind |-> <<>>, explanation_order |-> <<>>, dn_commitment |-> <<>>,
     regularity_role |-> <<>>]

\* The locals of computeDoctrineAlignment before the first check.
AlignStart ==
    [score |-> Double(10), conflicts |-> <<>>, alignments |-> <<>>,
     mismatchDetails |-> NoMismatchDetails]

\* A conflict string `<label>: found "<found>", expected "<expected>"`.
ConflictString(label, found, expected) == <<label, found, expected>>

\* checkLawKind without the test that leaves an unclear law kind out.
checkLawKindUnguarded(a, stanceTokens, doctrines) ==
    LET expectedLawType ==
            OrDefault(doctrines.LAW_TYPE, "proportional_dependencies")
    IN  IF stanceTokens.law_kind # expectedLawType
        THEN [a EXCEPT
                !.score = DoubleSub(@, Double(4)),
                !.conflicts =
                    Append(@, ConflictString("Law conception",
                                  stanceTokens.law_kind, expectedLawType)),
                !.mismatchDetails.law_kind =
                    <<[expected |-> expectedLawType,
                       found |-> stanceTokens.law_kind]>>]
        ELSE [a EXCEPT !.alignments =
                 Append(@, "Law conception aligns with doctrine")]

\* Check law_kind alignment.
checkLawKind(a, stanceTokens, doctrines) ==
    LET expectedLawType ==
            OrDefault(doctrines.LAW_TYPE, "proportional_dependencies")
    IN  IF stanceTokens.law_kind # "unclear"
        THEN IF stanceTokens.law_kind # expectedLawType
             THEN [a EXCEPT
                     !.score = DoubleSub(@, Double(4)),
                     !.conflicts =
                         Append(@, ConflictString("Law conception",
                                       stanceTokens.law_kind,
                                       expectedLawType)),
                     !.mismatchDetails.law_kind =
                         <<[expected |-> expectedLawType,
                            found |-> stanceTokens.law_kind]>>]
             ELSE [a EXCEPT !.alignments =
                      Append(@, "Law conception aligns with doctrine")]
        ELSE a

\* Check explanation_order alignment.
checkExplanationOrder(a, stanceTokens, doctrines) ==
    LET expectedOrder ==
            OrDefault(doctrines.EXPLANATION_ORDER, "instance_to_law")
    IN  IF stanceTokens.explanation_order # "unclear"
        THEN IF stanceTokens.explanation_order # expectedOrder
             THEN [a EXCEPT
                     !.score = DoubleSub(@, Double(4)),
                     !.conflicts =
                         Append(@, ConflictString("Explanation order",
                                       stanceTokens.explanation_order,
                                       expectedOrder)),
                     !.mismatchDetails.explanation_order =
                         <<[expected |-> expectedOrder,
                            found |-> stanceTokens.explanation_order]>>]
             ELSE [a EXCEPT !.alignments =
                      Append(@, "Explanation order aligns with doctrine")]
        ELSE a

\* checkDNCommitment with unshift in place of push.
checkDNCommitmentUnshift(a, stanceTokens, doctrines) ==
    LET expectedDN == OrDefault(doctrines.DN_MODEL, "rejected")
        dnMatch ==
            \/ expectedDN = "rejected" /\ stanceTokens.dn_commitment = "reject"
            \/ expectedDN = "accepted" /\ stanceTokens.dn_commitment = "accept"
    IN  IF stanceTokens.dn_commitment # "neutral"
        THEN IF ~dnMatch
             THEN [a EXCEPT
                     !.score = DoubleSub(@, Double(4)),
                     !.conflicts =
                         <<ConflictString("DN model commitment",
                               stanceTokens.dn_commitment, expectedDN)>> \o @,
                     !.mismatchDetails.dn_commitment =
                         <<[expected |-> expectedDN,
                            found |-> stanceTokens.dn_commitment]>>]
             ELSE [a EXCEPT !.alignments =
                      <<"DN model position aligns with doctrine">> \o @]
        ELSE a

\* Check DN commitment alignment.
checkDNCommitment(a, stanceTokens, doctrines) ==
    LET expectedDN == OrDefault(doctrines.DN_MODEL, "rejected")
        dnMatch ==
            \/ expectedDN = "rejected" /\ stanceTokens.dn_commitment = "reject"
            \/ expectedDN = "accepted" /\ stanceTokens.dn_commitment = "accept"
    IN  IF stanceTokens.dn_commitment # "neutral"
        THEN IF ~dnMatch
             THEN [a EXCEPT
                     !.score = DoubleSub(@, Double(4)),
                     !.conflicts =
                         Append(@, ConflictString("DN model commitment",
                                       stanceTokens.dn_commitment,
                                       expectedDN)),
                     !.mismatchDetails.dn_commitment =
                         <<[expected |-> expectedDN,
                            found |-> stanceTokens.dn_commitment]>>]
             ELSE [a EXCEPT !.alignments =
                      Append(@, "DN model position aligns with doctrine")]
        ELSE a

\* Check regularity_role alignment.
checkRegularityRole(a, stanceTokens, doctrines) ==
    LET expectedRegularity == RegularityOrDefault(doctrines.REGULARITY_STATUS)
        regularityMatch ==
            /\ Includes(expectedRegularity, SurfaceChars)
            /\ stanceTokens.regularity_role = "surface"
    IN  IF stanceTokens.regularity_role # "unclear"
        THEN IF ~regularityMatch
             THEN [a EXCEPT
                     !.score = DoubleSub(@, Double(2)),
                     !.conflicts =
                         Append(@, ConflictString("Regularity role",
                                       stanceTokens.regularity_role,
                                       "surface")),
                     !.mismatchDetails.regularity_role =
                         <<[expected |-> "surface",
                            found |-> stanceTokens.regularity_role]>>]
             ELSE [a EXCEPT !.alignments =
                      Append(@, "Regularity status aligns with doctrine")]
        ELSE a

\* score = Math.max(0, Math.min(1, score))
clampScore(score) == DoubleMax(Double(0), DoubleMin(Double(10), score))

\* The whole function, as one value.
computeDoctrineAlignment(stanceTokens, doctrines) ==
    LET a1 == checkLawKind(AlignStart, stanceTokens, doctrines)
        a2 == checkExplanationOrder(a1, stanceTokens, doctrines)
        a3 == checkDNCommitment(a2, stanceTokens, doctrines)
        a4 == checkRegularityRole(a3, stanceTokens, doctrines)
    IN  [crossPhaseCoherence |-> clampScore(a4.score),
         conflicts |-> a4.conflicts,
         alignments |-> a4.alignments,
         mismatchDetails |-> a4.mismatchDetails]

\* The locals as one record, and their assignment.
AlignLocals ==
    [score |-> alScore, conflicts |-> alConflicts,
     alignments |-> alAlignments, mismatchDetails |-> alMismatch]

AlignAssign(a) ==
    /\ alScore' = a.score
    /\ alConflicts' = a.conflicts
    /\ alAlignments' = a.alignments
    /\ alMismatch' = a.mismatchDetails

AlignFrame ==
    UNCHANGED <<alStance, alDoctrines, detVars, stVars, rtVars, contVars,
                segVars, gwVars, modVars>>

AlignCheckLawKind ==
    /\ alPc = "law_kind"
    /\ AlignAssign(checkLawKind(AlignLocals, alStance, alDoctrines))
    /\ alPc' = "explanation_order"
    /\ AlignFrame

AlignCheckExplanationOrder ==
    /\ alPc = "explanation_order"
    /\ AlignAssign(checkExplanationOrder(AlignLocals, alStance, alDoctrines))
    /\ alPc' = "dn_commitment"
    /\ AlignFrame

AlignCheckDNCommitment ==
    /\ alPc = "dn_commitment"
    /\ AlignAssign(checkDNCommitment(AlignLocals, alStance, alDoctrines))
    /\ alPc' = "regularity_role"
    /\ AlignFrame

AlignCheckRegularityRole ==
    /\ alPc = "regularity_role"
    /\ AlignAssign(checkRegularityRole(AlignLocals, alStance, alDoctrines))
    /\ alPc' = "clamp"
    /\ AlignFrame

\* The clamp and the return.
AlignReturn ==
    /\ alPc = "clamp"
    /\ alScore' = clampScore(alScore)
    /\ alPc' = "done"
    /\ UNCHANGED <<alConflicts, alAlignments, alMismatch>>
    /\ AlignFrame

InitAlign ==
    /\ SegIdle
    /\ caller = "none"
    /\ GwIdle
    /\ ModIdle
    /\ DetIdle
    /\ StIdle
    /\ RtIdle
    /\ ContIdle
    /\ alPc = "law_kind"
    /\ alStance \in StanceTokenValues
    /\ alDoctrines \in DoctrineStores
    /\ alScore = AlignStart.score
    /\ alConflicts = AlignStart.conflicts
    /\ alAlignments = AlignStart.alignments
    /\ alMismatch = AlignStart.mismatchDetails

NextAlign ==
    \/ AlignCheckLawKind
    \/ AlignCheckExplanationOrder
    \/ AlignCheckDNCommitment
    \/ AlignCheckRegularityRole
    \/ AlignReturn

SpecAlign == InitAlign /\ [][NextAlign]_vars

\* ---------------------------------------------------------- module claims
\* The module call took the multi-chunk path (the loop, not the single call).
MultiChunk == modPc \notin {"off", "start"} /\ Len(chunks) # 1

Result == modResult[1]

RECURSIVE ConcatInOrder(_)
ConcatInOrder(lists) ==
    IF Len(lists) = 0 THEN <<>> ELSE Head(lists) \o ConcatInOrder(Tail(lists))

RECURSIVE Total(_)
Total(scores) ==
    IF Len(scores) = 0 THEN 0 ELSE Head(scores).num + Total(Tail(scores))

\* f is the unweighted mean of the chunk scores (all of denominator 1).
IsMeanOf(f, scores) ==
    IF Len(scores) = 0 THEN f.den = 0
    ELSE f.den > 0 /\ f.num * Len(scores) = Total(scores) * f.den

\* lo <= f <= hi, for lo and hi in tenths; false of NaN.
InInterval(f, lo, hi) ==
    f.den > 0 /\ lo * f.den <= f.num /\ f.num <= hi * f.den

\* C4: in a multi-chunk module call the chunk calls start in segmenter
\* order, each with its own chunk, each only after the one before it has
\* returned, and chunkResults holds the per-chunk results in chunk order.
C4_ChunksSequentialInOrder ==
    MultiChunk =>
        /\ \A i \in 1..Len(callLog) :
              IF i % 2 = 1
              THEN /\ callLog[i].ev = "start"
                   /\ callLog[i].chunk = (i + 1) \div 2
                   /\ callLog[i].sent = chunks[(i + 1) \div 2]
              ELSE /\ callLog[i].ev \in {"end", "fail"}
                   /\ callLog[i].chunk = i \div 2
                   /\ i < Len(callLog) => callLog[i].ev = "end"
        /\ gwPc # "idle" => (modPc = "await" /\ Len(callLog) % 2 = 1)
        /\ Len(chunkResults) =
              Cardinality({i \in 1..Len(callLog) : callLog[i].ev = "end"})
        /\ \A k \in 1..Len(chunkResults) : chunkResults[k] = callLog[2 * k].result
        /\ modPc = "done" => Len(chunkResults) = Len(chunks)

\* C4 witness: a three-chunk call ran to the end with different results for
\* the first two chunks.
C4_Witness ==
    /\ modPc = "done"
    /\ Len(chunks) = 3
    /\ Len(callLog) = 6
    /\ chunkResults[1] # chunkResults[2]

\* C5: when the backend call or the parse of one chunk fails in a
\* multi-chunk module call, the call fails with that error: no result is
\* returned, the chunk is not tried again and no later chunk is started.
C5_ChunkFailureAbortsCall ==
    MultiChunk =>
        \A i \in 1..Len(callLog) :
            callLog[i].ev = "fail" =>
                /\ i = Len(callLog)
                /\ modPc = "failed"
                /\ modResult = <<>>
                /\ modError = callLog[i].error
                /\ gwPc = "idle"
                /\ Cardinality({j \in 1..Len(callLog) :
                                  /\ callLog[j].ev = "start"
                                  /\ callLog[j].chunk = callLog[i].chunk}) = 1
                /\ \A j \in 1..Len(callLog) :
                       callLog[j].chunk <= callLog[i].chunk

\* C5 witness: the second of three chunks got an unparsable reply; the call
\* failed with one collected result and the third chunk never started.
C5_Witness ==
    /\ modPc = "failed"
    /\ Len(chunks) = 3
    /\ Len(chunkResults) = 1
    /\ Len(callLog) = 4
    /\ callLog[4].ev = "fail"
    /\ modError = <<"SyntaxError">>

\* C6: every scalar score of a module result built from backend replies is
\* populated and lies in its declared interval ([0,1], utilityRank [0,10]),
\* single-chunk and multi-chunk path alike, whatever the backend replied.
C6_ScoresWithinBounds ==
    (modPc = "done" /\ Len(callLog) > 0) =>
        CASE caller = "inference" ->
                /\ InInterval(Result.judgment.coherenceScore, 0, 10)
                /\ InInterval(Result.overallCoherence, 0, 10)
          [] caller = "justification" ->
                InInterval(Result.coherenceScore, 0, 10)
          [] caller = "utility" -> InInterval(Result.utilityRank, 0, 100)
          [] caller = "integrity" ->
                \A m \in Metrics : InInterval(Result.diagnostic_block[m], 0, 10)

\* C7: in a multi-chunk module call every scalar score of the synthesized
\* result is the unweighted mean of the same field of the chunk results.
C7_ScoresAreFieldMeans ==
    (modPc = "done" /\ MultiChunk) =>
        CASE caller = "inference" ->
                /\ IsMeanOf(Result.judgment.coherenceScore,
                            Field(Field(chunkResults, "judgment"),
                                  "coherenceScore"))
                /\ IsMeanOf(Result.overallCoherence,
                            Field(chunkResults, "overallCoherence"))
          [] caller = "justification" ->
                IsMeanOf(Result.coherenceScore,
                         Field(chunkResults, "coherenceScore"))
          [] caller = "utility" ->
                IsMeanOf(Result.utilityRank, Field(chunkResults, "utilityRank"))
          [] caller = "integrity" ->
                \A m \in Metrics :
                    IsMeanOf(Result.diagnostic_block[m],
                             Field(Field(chunkResults, "diagnostic_block"), m))

\* C8: in a multi-chunk module call every list of the synthesized result is
\* the per-chunk lists concatenated in chunk order, entries in their order,
\* none dropped or repeated.
C8_ListsConcatenatedInOrder ==
    (modPc = "done" /\ MultiChunk) =>
        CASE caller = "inference" ->
                /\ Result.arguments =
                      ConcatInOrder(Field(chunkResults, "arguments"))
                /\ Result.judgment.issues =
                      ConcatInOrder(Field(Field(chunkResults, "judgment"),
                                          "issues"))
          [] caller = "justification" ->
                /\ Result.detectedClaims =
                      ConcatInOrder(Field(chunkResults, "detectedClaims"))
                /\ Result.justificationChains =
                      ConcatInOrder(Field(chunkResults, "justificationChains"))
                /\ Result.weaknesses =
                      ConcatInOrder(Field(chunkResults, "weaknesses"))
          [] caller = "utility" ->
                /\ Result.operativeKnowledge =
                      ConcatInOrder(Field(chunkResults, "operativeKnowledge"))
                /\ Result.utilityMappings =
                      ConcatInOrder(Field(chunkResults, "utilityMappings"))
                /\ Result.judgmentReport.limitations =
                      ConcatInOrder(Field(Field(chunkResults, "judgmentReport"),
                                          "limitations"))
          [] caller = "integrity" -> TRUE

\* C8 witness: chunk lists [p], [q,p], [p] were merged into [p,q,p,p].
C8_Witness ==
    /\ modPc = "done"
    /\ Len(chunks) = 3
    /\ caller = "inference"
    /\ Result.arguments = <<"p", "q", "p", "p">>
    /\ Result.judgment.issues = <<"p">>

\* --------------------------------------------------------- gateway claims
\* The trial order the documentation gives for each preferred provider.
ExpectedOrder(preferred) ==
    CASE preferred = "anthropic" -> <<"anthropic", "openai", "deepseek">>
      [] preferred = "openai" -> <<"openai", "anthropic", "deepseek">>
      [] preferred = "deepseek" -> <<"deepseek", "anthropic", "openai">>

IsPrefix(a, b) == Len(a) <= Len(b) /\ a = SubSeq(b, 1, Len(a))

NoRepeats(q) == \A i, j \in 1..Len(q) : q[i] = q[j] => i = j

\* C1: one getAICompletion call invokes the providers in the order preferred
\* first, then the rest of [anthropic, openai, deepseek] in that order, and
\* invokes no provider twice.
C1_TrialOrder ==
    gwPc # "idle" =>
        /\ IsPrefix(attempts, ExpectedOrder(preferredProvider))
        /\ NoRepeats(attempts)
        /\ gwPc = "thrown" => attempts = ExpectedOrder(preferredProvider)

\* C1 witness: preferred = openai, openai and anthropic failed, deepseek
\* answered: the attempts were [openai, anthropic, deepseek].
C1_Witness ==
    /\ gwPc = "returned"
    /\ preferredProvider = "openai"
    /\ attempts = <<"openai", "anthropic", "deepseek">>

\* C2: getAICompletion throws only after every provider of the trial order
\* has failed, the thrown error carries the message of the last failure, and
\* a call in which some provider succeeded has returned, not thrown.
C2_FailsOnlyWhenAllFail ==
    /\ gwPc = "thrown" =>
          /\ Len(completed) = Len(providerChain)
          /\ {completed[i].provider : i \in 1..Len(completed)} = Providers
          /\ \A i \in 1..Len(completed) : ~completed[i].result.ok
          /\ gwResult = <<AllFailedPrefix, completed[Len(completed)].result.msg>>
    /\ (\E i \in 1..Len(completed) : completed[i].result.ok) => gwPc = "returned"

\* C2 witness: all three providers failed, the first and the last with
\* different messages, and the call has thrown.
C2_Witness ==
    /\ gwPc = "thrown"
    /\ Len(completed) = 3
    /\ completed[1].result.msg # completed[3].result.msg

\* C3: providers are tried one after the other: at most one provider call is
\* in flight, a provider is invoked only once all providers before it have
\* settled with a failure, none is invoked after a success, and the returned
\* text is the value of the first provider call that succeeded.
C3_Sequential ==
    /\ Cardinality(inflight) <= 1
    /\ gwPc = "inflight" =>
          /\ inflight = {attempts[Len(attempts)]}
          /\ Len(completed) = Len(attempts) - 1
    /\ gwPc # "inflight" =>
          /\ inflight = {}
          /\ Len(completed) = Len(attempts)
    /\ \A i \in 1..Len(completed) : completed[i].provider = attempts[i]
    /\ \A i \in 1..Len(attempts) :
          \A j \in 1..(i - 1) : j <= Len(completed) /\ ~completed[j].result.ok
    /\ gwPc = "returned" =>
          /\ completed[Len(completed)].result.ok
          /\ gwResult = completed[Len(completed)].result.text

\* C3 witness: the third provider answered with a non-empty text after the
\* first two had failed.
C3_Witness ==
    /\ gwPc = "returned"
    /\ Len(completed) = 3
    /\ Len(gwResult) > 0
    /\ inflight = {}

\* ------------------------------------------------------- segmenter claims
HasTerminator(s) == \E i \in 1..Len(s) : s[i] \in Terminators

\* A chunk made of one sentence: the sentence text, free of terminators,
\* followed by the period the sentence join appends.
IsSingleSentenceChunk(c) ==
    /\ Len(c) >= 2
    /\ c[Len(c)] = Dot
    /\ ~HasTerminator(SubSeq(c, 1, Len(c) - 1))

\* The sentences of the oversized paragraphs of t that exceed maxW words.
OversizedSentences(t, maxW) ==
    LET paragraphs == SplitParagraphs(t)
    IN  UNION {
          {SplitSentences(paragraphs[i])[j] :
             j \in {k \in 1..Len(SplitSentences(paragraphs[i])) :
                      countWords(SplitSentences(paragraphs[i])[k]) > maxW}} :
          i \in {k \in 1..Len(paragraphs) : countWords(paragraphs[k]) > maxW}}

\* C9: when countWords(text) <= maxWords, segmentText returns exactly the
\* one-element list [text], the text unchanged.
C9_SingleChunkIdentity ==
    (segPc = "done" /\ countWords(text) <= maxWords) => segments = <<text>>

\* C9 witness: a short text with surrounding whitespace went through
\* segmentText (a trim or re-join would have changed it).
C9_Witness ==
    /\ segPc = "done"
    /\ countWords(text) = maxWords
    /\ Trim(text) # text
    /\ segments = <<text>>

\* C10: for a text of more than maxWords words every returned chunk has at
\* most maxWords words, unless it is one single sentence that alone exceeds
\* maxWords; every such sentence is a chunk of its own, unsplit.
C10_ChunkWordBound ==
    (segPc = "done" /\ countWords(text) > maxWords) =>
        /\ \A k \in 1..Len(segments) :
              \/ countWords(segments[k]) <= maxWords
              \/ IsSingleSentenceChunk(segments[k])
        /\ \A s \in OversizedSentences(text, maxWords) :
              \E k \in 1..Len(segments) : segments[k] = Trim(s) \o <<Dot>>

\* C10 witness: a long text was split into several chunks, one of them an
\* oversized single sentence and another within the limit.
C10_Witness ==
    /\ segPc = "done"
    /\ countWords(text) > maxWords
    /\ \E j, k \in 1..Len(segments) :
          /\ countWords(segments[j]) > maxWords
          /\ countWords(segments[k]) <= maxWords

\* The words of a text as countWords delimits them (maximal runs of
\* non-whitespace), each with its sentence terminators taken out; a word of
\* terminators only leaves nothing.
StripTerminators(w) == SelectSeq(w, LAMBDA c : c \notin Terminators)

WordsOf(t) == SelectSeq(SplitRuns(Trim(t), Whitespace), LAMBDA w : Len(w) > 0)

ContentWords(t) ==
    SelectSeq([i \in 1..Len(WordsOf(t)) |-> StripTerminators(WordsOf(t)[i])],
              LAMBDA w : Len(w) > 0)

ChunkContentWords(segs) ==
    flatMap([i \in 1..Len(segs) |-> ContentWords(segs[i])])

\* C11: the chunks segmentText returns, read in order with the rejoining
\* punctuation and whitespace ignored, hold exactly the words of the input,
\* each once and in its original order, no word cut by a chunk or sentence
\* boundary.
C11_SegmentationCoverage ==
    segPc = "done" => ChunkContentWords(segments) = ContentWords(text)

\* ----------------------------------------------------- detectArgument claims
DetectFields == {"isArgumentative", "confidence", "reasoning"}

\* The AI path of the finished call failed: the gateway threw, or its reply
\* did not parse to an object.
DetectAIPathFailed ==
    /\ Len(detCalls) = 1
    /\ detCalls[1].state \in {"thrown", "unparsable"}

\* C12: detectArgument never raises; every call, the one on the empty text
\* included, ends with an object of the three fields isArgumentative,
\* confidence and reasoning, and when the AI path failed that object is
\* {true, 0.5, "Detection service unavailable, proceeding with analysis"}.
C12_DetectNeverRaises ==
    /\ detPc \in {"off", "start", "await", "done"}
    /\ detPc = "done" =>
         /\ Len(detResult) = 1
         /\ DOMAIN detResult[1] = DetectFields
    /\ (detPc = "done" /\ DetectAIPathFailed) =>
         detResult[1] =
            [isArgumentative |-> TRUE, confidence |-> 50,
             reasoning |->
                "Detection service unavailable, proceeding with analysis"]

\* The call on the empty text ended with the default after every provider
\* had failed.
C12_Witness ==
    /\ detPc = "done"
    /\ text = <<>>
    /\ DetectAIPathFailed
    /\ detCalls[1].state = "thrown"
    /\ detResult[1].confidence = 50

\* The input texts that hold one of the markers as a whole word.
TextsWithMarker ==
    {<<"a", "s">>,
     <<"T", "h", "u", "s", Space, "a">>,
     <<"b", Space, "A", "S", Dot>>,
     <<"a", Hyphen, "a", "s">>,
     <<"l", "e", "a", "d", "s", Space, "t", "o">>}

\* C13: on a text with an inferential marker detectArgument returns
\* {true, 0.9, the fixed reasoning} and calls the gateway not at all; on a
\* text without one it calls the gateway exactly once.
C13_MarkerShortCircuits ==
    /\ (detPc # "off" /\ text \in TextsWithMarker) =>
         /\ detCalls = <<>>
         /\ detPc # "await"
         /\ detPc = "done" =>
              detResult =
                 <<[isArgumentative |-> TRUE, confidence |-> 90,
                    reasoning |-> "Contains explicit inference markers"]>>
    /\ (detPc # "off" /\ text \notin TextsWithMarker) =>
         /\ Len(detCalls) <= 1
         /\ detPc \in {"await", "done"} => Len(detCalls) = 1

\* An upper-case marker before a full stop short-circuited the call.
C13_Witness ==
    /\ detPc = "done"
    /\ text = <<"b", Space, "A", "S", Dot>>
    /\ detResult[1].confidence = 90
    /\ detCalls = <<>>

\* ---------------------------------------------------- POST /api/analyze claims
\* A request for a known module whose text is over the word cap.
OverWordCap ==
    /\ rtPc # "off"
    /\ moduleType \in ModuleTypes
    /\ countWords(text) > WordLimit

NoBackendCalled ==
    /\ detCalls = <<>>
    /\ callLog = <<>>
    /\ embedLog = <<>>
    /\ gwPc = "idle"
    /\ attempts = <<>>

\* C14: a request whose text has more than the capped number of words is
\* answered with the OVERLENGTH error, and no backend (detector, module
\* gateway call, embedding) is called for it.
C14_OverlengthRejectedFirst ==
    OverWordCap =>
        /\ NoBackendCalled
        /\ rtPc \in {"validate", "sent"}
        /\ rtPc = "sent" => response[1].code = "OVERLENGTH"

\* C15: when the analyzer has returned and saveAnalysis rejects, the request
\* is answered 200 with success and the analyzer's result, the very response
\* a successful save is followed by.
C15_SaveFailureSwallowed ==
    (rtPc = "sent" /\ saveLog # <<>>) =>
        /\ Len(saveLog) = 1
        /\ response =
             <<Reply(200, TRUE, "", <<countWords(text)>>, <<TRUE>>,
                     <<saveLog[1].result>>, <<>>)>>
        /\ modResult = <<saveLog[1].result>>

\* A two-chunk request was answered with its result after the save failed.
C15_Witness ==
    /\ rtPc = "sent"
    /\ text = TextChunked
    /\ Len(saveLog) = 1
    /\ ~saveLog[1].ok
    /\ response[1].success
    /\ response[1].result = modResult

\* ---- stance extraction claims ----

\* The AI fallback of the finished extraction failed: the gateway threw or
\* its reply did not parse to an object.
StanceAIPathFailed ==
    /\ stPc = "done"
    /\ stCalls # <<>>
    /\ stCalls[Len(stCalls)].state \in {"thrown", "unparsable"}

\* C16: extractStanceTokens never propagates an exception, and when the AI
\* fallback fails (unparsable reply or exhausted gateway) it returns unclear /
\* unclear / neutral / unclear with confidence 0.5.
C16_StanceFailureDefault ==
    /\ stPc \in {"off", "start", "scored", "await", "done"}
    /\ StanceAIPathFailed =>
          stResult = <<[law_kind |-> "unclear",
                        explanation_order |-> "unclear",
                        dn_commitment |-> "neutral",
                        regularity_role |-> "unclear",
                        confidence |-> Double(5)]>>

\* Four times the mean of the four sub-scorer confidences, in tenths.
ConfidenceSumTenths(locals) ==
    locals.lawKind.confidence.num + locals.explanationOrder.confidence.num
      + locals.dnCommitment.confidence.num
      + locals.regularityRole.confidence.num

\* The four categorical fields of a StanceTokens value.
StanceValues(tokens) ==
    <<tokens.law_kind, tokens.explanation_order, tokens.dn_commitment,
      tokens.regularity_role>>

\* C17: when the mean of the four sub-scorer confidences is at least 0.6 the
\* rule-based tokens are returned and the gateway is never called; when it is
\* below 0.6 the finished extraction has made exactly one gateway call.
C17_MeanDecidesPath ==
    stLocals # <<>> =>
        IF ConfidenceSumTenths(stLocals[1]) >= 24
        THEN /\ stCalls = <<>>
             /\ stPc = "done" =>
                   StanceValues(stResult[1]) =
                       <<stLocals[1].lawKind.value,
                         stLocals[1].explanationOrder.value,
                         stLocals[1].dnCommitment.value,
                         stLocals[1].regularityRole.value>>
        ELSE stPc = "done" => Len(stCalls) = 1

\* The first category, in enumeration order, whose count is the highest.
FirstHighest(categories, counts) ==
    LET n == Len(categories)
        i == CHOOSE k \in 1..n :
                 /\ \A j \in 1..n : counts[j] <= counts[k]
                 /\ \A j \in 1..(k - 1) : counts[j] < counts[k]
    IN  categories[i]

\* C18: each sub-scorer with at least one match returns the category with the
\* highest count, the first listed one when the highest count is shared.
C18_HighestCountFirstOnTie ==
    stLocals # <<>> =>
        /\ stText.universal + stText.proportional + stText.probabilistic > 0
             => stLocals[1].lawKind.value =
                  FirstHighest(<<"universal_regularities",
                                 "proportional_dependencies",
                                 "probabilistic_nomic">>,
                               <<stText.universal, stText.proportional,
                                 stText.probabilistic>>)
        /\ stText.lawToInstance + stText.instanceToLaw > 0
             => stLocals[1].explanationOrder.value =
                  FirstHighest(<<"law_to_instance", "instance_to_law">>,
                               <<stText.lawToInstance, stText.instanceToLaw>>)
        /\ stText.accept + stText.reject > 0
             => stLocals[1].dnCommitment.value =
                  FirstHighest(<<"accept", "reject">>,
                               <<stText.accept, stText.reject>>)
        /\ stText.foundational + stText.surface > 0
             => stLocals[1].regularityRole.value =
                  FirstHighest(<<"foundational", "surface">>,
                               <<stText.foundational, stText.surface>>)

\* One sub-scorer's result follows the confidence rule: with no match the
\* fallback value at 0.3, otherwise a category at min(0.9, 0.6 + 0.1 * count)
\* for that category's count.
FollowsConfidenceRule(result, categories, counts, fallback) ==
    IF \A j \in 1..Len(counts) : counts[j] = 0
    THEN result.value = fallback /\ result.confidence = Double(3)
    ELSE \E j \in 1..Len(categories) :
            /\ result.value = categories[j]
            /\ result.confidence =
                   Double(IF counts[j] >= 3 THEN 9 ELSE 6 + counts[j])

\* C19: every sub-scorer's confidence is min(0.9, 0.6 + 0.1 * matchCount) of
\* the chosen category when a pattern matched, and 0.3 with the value unclear
\* (neutral for the DN commitment) exactly when none matched.
C19_SubScorerConfidence ==
    stLocals # <<>> =>
        /\ FollowsConfidenceRule(stLocals[1].lawKind,
               <<"universal_regularities", "proportional_dependencies",
                 "probabilistic_nomic">>,
               <<stText.universal, stText.proportional,
                 stText.probabilistic>>, "unclear")
        /\ FollowsConfidenceRule(stLocals[1].explanationOrder,
               <<"law_to_instance", "instance_to_law">>,
               <<stText.lawToInstance, stText.instanceToLaw>>, "unclear")
        /\ FollowsConfidenceRule(stLocals[1].dnCommitment,
               <<"accept", "reject">>,
               <<stText.accept, stText.reject>>, "neutral")
        /\ FollowsConfidenceRule(stLocals[1].regularityRole,
               <<"foundational", "surface">>,
               <<stText.foundational, stText.surface>>, "unclear")

\* A double between 0 and 1 inclusive.
InUnitInterval(d) ==
    /\ d.num > 0 \/ (d.num = 0 /\ d.err >= 0)
    /\ d.num < d.den \/ (d.num = d.den /\ d.err <= 0)

\* C20: every returned StanceTokens has its four categorical fields inside
\* their closed sets and a confidence between 0 and 1, on both paths.
C20_StanceTokensWellFormed ==
    stResult # <<>> =>
        /\ stResult[1].law_kind \in
              {"universal_regularities", "proportional_dependencies",
               "probabilistic_nomic", "unclear"}
        /\ stResult[1].explanation_order \in
              {"law_to_instance", "instance_to_law", "unclear"}
        /\ stResult[1].dn_commitment \in {"accept", "reject", "neutral"}
        /\ stResult[1].regularity_role \in
              {"foundational", "surface", "unclear"}
        /\ InUnitInterval(stResult[1].confidence)

\* ---- doctrine alignment claims ----

Dimensions ==
    <<"law_kind", "explanation_order", "dn_commitment", "regularity_role">>

DimensionIndex(d) == CHOOSE i \in 1..4 : Dimensions[i] = d

\* The value that leaves a dimension out of the comparison.
UnclearValue(d) == IF d = "dn_commitment" THEN "neutral" ELSE "unclear"

\* The label that opens a dimension's conflict string, its alignment string
\* and its penalty in tenths.
ConflictLabel(d) ==
    CASE d = "law_kind" -> "Law conception"
      [] d = "explanation_order" -> "Explanation order"
      [] d = "dn_commitment" -> "DN model commitment"
      [] d = "regularity_role" -> "Regularity role"

AlignmentString(d) ==
    CASE d = "law_kind" -> "Law conception aligns with doctrine"
      [] d = "explanation_order" -> "Explanation order aligns with doctrine"
      [] d = "dn_commitment" -> "DN model position aligns with doctrine"
      [] d = "regularity_role" -> "Regularity status aligns with doctrine"

PenaltyTenths(d) == IF d = "regularity_role" THEN 2 ELSE 4

HasConflict(conflicts, d) ==
    \E i \in 1..Len(conflicts) : conflicts[i][1] = ConflictLabel(d)

HasAlignment(alignments, d) ==
    \E i \in 1..Len(alignments) : alignments[i] = AlignmentString(d)

\* The stance value v of dimension d agrees with what the policy expects for
\* that dimension: the policy's value when it has the key, else the default.
\* "reject" agrees with "rejected" and "accept" with "accepted"; a regularity
\* role agrees with a status that names it.
StanceAgrees(d, v, doctrines) ==
    CASE d = "law_kind" ->
            v = (IF doctrines.LAW_TYPE = <<>>
                 THEN "proportional_dependencies"
                 ELSE doctrines.LAW_TYPE[1])
      [] d = "explanation_order" ->
            v = (IF doctrines.EXPLANATION_ORDER = <<>>
                 THEN "instance_to_law"
                 ELSE doctrines.EXPLANATION_ORDER[1])
      [] d = "dn_commitment" ->
            LET e == IF doctrines.DN_MODEL = <<>> THEN "rejected"
                     ELSE doctrines.DN_MODEL[1]
            IN  \/ e = "rejected" /\ v = "reject"
                \/ e = "accepted" /\ v = "accept"
      [] d = "regularity_role" ->
            LET e == IF doctrines.REGULARITY_STATUS = <<>>
                     THEN DefaultRegularityStatus
                     ELSE doctrines.REGULARITY_STATUS[1]
            IN  \/ v = "surface" /\ Includes(e, SurfaceChars)
                \/ v = "foundational" /\ Includes(e, FoundationalChars)

\* 1.0 less the penalties of the dimensions of `which`, deducted one after
\* the other in dimension order, then clamped.
RECURSIVE DeductFrom(_, _, _)
DeductFrom(score, which, i) ==
    IF i > 4 THEN score
    ELSE DeductFrom(IF Dimensions[i] \in which
                    THEN DoubleSub(score, Double(PenaltyTenths(Dimensions[i])))
                    ELSE score,
                    which, i + 1)

ScoreLess(which) == clampScore(DeductFrom(Double(10), which, 1))

\* C21: for every dimension whose stance value is not unclear / neutral, a
\* stance that agrees with the policy's expected value adds that dimension's
\* alignment string and no penalty, and one that disagrees adds a conflict
\* string and deducts 0.4 (0.2 for the regularity role), whatever the policy.
C21_AgreementDecidesEntry ==
    alPc = "done" =>
        /\ \A i \in 1..4 :
              LET d == Dimensions[i]
              IN  alStance[d] # UnclearValue(d) =>
                     IF StanceAgrees(d, alStance[d], alDoctrines)
                     THEN /\ HasAlignment(alAlignments, d)
                          /\ ~HasConflict(alConflicts, d)
                     ELSE /\ HasConflict(alConflicts, d)
                          /\ ~HasAlignment(alAlignments, d)
        /\ alScore =
              ScoreLess({Dimensions[i] : i \in
                  {j \in 1..4 :
                      /\ alStance[Dimensions[j]] # UnclearValue(Dimensions[j])
                      /\ ~StanceAgrees(Dimensions[j], alStance[Dimensions[j]],
                                       alDoctrines)}})

\* C22: a dimension whose value is unclear (neutral for the DN commitment)
\* adds no conflict, no alignment and no mismatch detail, and the score is
\* lowered for the dimensions with a conflict only; with all four dimensions
\* unclear the result is 1.0 with empty conflicts and alignments.
C22_UnclearContributesNothing ==
    alPc = "done" =>
        /\ \A i \in 1..4 :
              LET d == Dimensions[i]
              IN  alStance[d] = UnclearValue(d) =>
                     /\ ~HasConflict(alConflicts, d)
                     /\ ~HasAlignment(alAlignments, d)
                     /\ alMismatch[d] = <<>>
        /\ alScore =
              ScoreLess({Dimensions[i] : i \in
                  {j \in 1..4 : HasConflict(alConflicts, Dimensions[j])}})
        /\ (\A i \in 1..4 : alStance[Dimensions[i]] = UnclearValue(Dimensions[i]))
              => /\ alScore = Double(10)
                 /\ alConflicts = <<>>
                 /\ alAlignments = <<>>

\* A finished call with an unclear law kind, a neutral DN commitment and a
\* conflict on another dimension.
C22_Witness ==
    /\ alPc = "done"
    /\ alStance.law_kind = "unclear"
    /\ alStance.dn_commitment = "neutral"
    /\ HasConflict(alConflicts, "regularity_role")
    /\ HasAlignment(alAlignments, "explanation_order")

\* The penalties, in tenths, of the dimensions of `which`.
RECURSIVE PenaltySum(_, _)
PenaltySum(which, i) ==
    IF i > 4 THEN 0
    ELSE (IF Dimensions[i] \in which THEN PenaltyTenths(Dimensions[i]) ELSE 0)
            + PenaltySum(which, i + 1)

\* C23: the returned score is in [0,1] and is max(0, 1.0 - the sum of the
\* penalties of the dimensions that conflict).
C23_ScoreIsClampedRemainder ==
    alPc = "done" =>
        /\ InUnitInterval(alScore)
        /\ alScore =
              Double(Max(0, 10 - PenaltySum(
                  {Dimensions[i] : i \in
                      {j \in 1..4 : HasConflict(alConflicts, Dimensions[j])}},
                  1)))

\* Every dimension of the stance agrees with the policy.
AllAligned(stanceTokens, doctrines) ==
    \A i \in 1..4 :
        StanceAgrees(Dimensions[i], stanceTokens[Dimensions[i]], doctrines)

\* The values a dimension can take.
DimensionValues(d) == {s[d] : s \in StanceTokenValues}

\* C24: from a stance whose dimensions all agree with the policy, changing one
\* dimension to a conflicting value never raises the score, and lowers it by
\* that dimension's penalty (0.4 or 0.2), clamped at 0.
C24_OneConflictLowersByPenalty ==
    (alPc = "done" /\ AllAligned(alStance, alDoctrines)) =>
        \A i \in 1..4 :
            LET d == Dimensions[i]
            IN  \A v \in DimensionValues(d) :
                   (v # UnclearValue(d) /\ ~StanceAgrees(d, v, alDoctrines)) =>
                      LET changed ==
                              computeDoctrineAlignment(
                                  [alStance EXCEPT ![d] = v], alDoctrines)
                      IN  /\ ~DoubleLess(alScore, changed.crossPhaseCoherence)
                          /\ changed.crossPhaseCoherence =
                                clampScore(DoubleSub(alScore,
                                               Double(PenaltyTenths(d))))

\* The dimensions of the entries of a list, by position.
ConflictDimension(entry) ==
    CHOOSE i \in 1..4 : ConflictLabel(Dimensions[i]) = entry[1]

AlignmentDimension(entry) ==
    CHOOSE i \in 1..4 : AlignmentString(Dimensions[i]) = entry

\* C25: the entries of conflicts and of alignments are in the dimension order
\* law kind, explanation order, DN commitment, regularity role, and no
\* dimension has more than one entry in the two lists together.
C25_EntriesInDimensionOrder ==
    /\ alPc # "off" =>
          /\ \A i, j \in 1..Len(alConflicts) :
                i < j => ConflictDimension(alConflicts[i])
                           < ConflictDimension(alConflicts[j])
          /\ \A i, j \in 1..Len(alAlignments) :
                i < j => AlignmentDimension(alAlignments[i])
                           < AlignmentDimension(alAlignments[j])
          /\ \A i \in 1..4 :
                ~(HasConflict(alConflicts, Dimensions[i])
                    /\ HasAlignment(alAlignments, Dimensions[i]))

\* A finished call with two conflicts and two alignments.
C25_Witness ==
    /\ alPc = "done"
    /\ Len(alConflicts) = 2
    /\ Len(alAlignments) = 2
    /\ HasConflict(alConflicts, "law_kind")
    /\ HasAlignment(alAlignments, "explanation_order")

\* ---- synthesis label claims ----

\* The chunk results with every per-chunk IntegrityType replaced by label.
Relabel(results, label) ==
    [i \in 1..Len(results) |->
        [results[i] EXCEPT !.diagnostic_block["IntegrityType"] = label]]

\* The label of the three-tier rule for an averaged CompositeScore.
TierLabel(score) ==
    IF Ge(score, 8) THEN "High-Integrity Source (Synthesized)"
    ELSE IF Ge(score, 5) THEN "Authentic Partial (Synthesized)"
    ELSE "Requires Conceptual Reconstruction (Synthesized)"

\* C26: in a multi-chunk integrity call the synthesized IntegrityType is the
\* tier of the averaged CompositeScore (>= 0.80, >= 0.50, otherwise) and is
\* the same whatever the per-chunk IntegrityType labels are.
C26_LabelFromAveragedScore ==
    (modPc = "done" /\ MultiChunk /\ caller = "integrity") =>
        /\ Result.diagnostic_block["IntegrityType"] =
              TierLabel(Result.diagnostic_block["CompositeScore"])
        /\ \A label \in {"Unknown", "Authentic Source", "Simulated Source"} :
              Synthesize("integrity", Relabel(chunkResults, label))
                  .diagnostic_block["IntegrityType"]
                = Result.diagnostic_block["IntegrityType"]

\* Two chunks with different labels and CompositeScore 0.9 each were
\* synthesized to the high-integrity label.
C26_Witness ==
    /\ modPc = "done"
    /\ caller = "integrity"
    /\ Len(chunkResults) = 2
    /\ chunkResults[1].diagnostic_block["IntegrityType"]
          # chunkResults[2].diagnostic_block["IntegrityType"]
    /\ Result.diagnostic_block["IntegrityType"] =
          "High-Integrity Source (Synthesized)"

\* f <= k for k in tenths; false of NaN.
Le(f, k) == f.den > 0 /\ f.num <= k * f.den

\* The label of score follows the buckets > hi, (lo, hi] and <= lo.
InBuckets(label, score, hi, lo, top, middle, bottom) ==
    /\ Gt(score, hi) => label = top
    /\ (Gt(score, lo) /\ Le(score, hi)) => label = middle
    /\ Le(score, lo) => label = bottom

\* C27: the label of every regenerated narrative field comes from the
\* averaged score: above 0.7 the top label, above 0.5 up to 0.7 the middle
\* one, up to 0.5 the bottom one, for the inference and the justification
\* module; the utility module, whose rank runs from 0 to 10, has its
\* boundaries at 7 and 5.
C27_LabelBuckets ==
    (modPc = "done" /\ MultiChunk) =>
        CASE caller = "inference" ->
                InBuckets(Result.logicalSoundness, Result.overallCoherence,
                          7, 5, "Sound", "Moderate", "Weak")
          [] caller = "justification" ->
                InBuckets(Result.completeness, Result.coherenceScore,
                          7, 5, "Complete", "Moderately complete",
                          "Incomplete")
          [] caller = "utility" ->
                InBuckets(Result.judgmentReport.transformativePotential,
                          Result.utilityRank,
                          70, 50, "high", "moderate", "limited")
          [] caller = "integrity" -> TRUE

\* C27 as stated: the boundaries are 0.7 and 0.5 in every module.
C27_UniformBuckets ==
    (modPc = "done" /\ MultiChunk) =>
        CASE caller = "inference" ->
                InBuckets(Result.logicalSoundness, Result.overallCoherence,
                          7, 5, "Sound", "Moderate", "Weak")
          [] caller = "justification" ->
                InBuckets(Result.completeness, Result.coherenceScore,
                          7, 5, "Complete", "Moderately complete",
                          "Incomplete")
          [] caller = "utility" ->
                InBuckets(Result.judgmentReport.transformativePotential,
                          Result.utilityRank,
                          7, 5, "high", "moderate", "limited")
          [] caller = "integrity" -> TRUE

\* A justification call whose chunk scores 0.6 and 0.8 average to exactly
\* 0.7 got the middle label.
C27_Witness ==
    /\ modPc = "done"
    /\ MultiChunk
    /\ caller = "justification"
    /\ Len(chunkResults) = 2
    /\ chunkResults[1].coherenceScore # chunkResults[2].coherenceScore
    /\ Result.coherenceScore.num = 7 * Result.coherenceScore.den
    /\ Result.completeness = "Moderately complete"

\* ---- segmentation, gate and persistence claims ----

\* C28: for every text and every maxWords >= 1 segmentText returns at least
\* one chunk, and no chunk is empty or only whitespace.
C28_ChunksNonEmpty ==
    segPc = "done" =>
        /\ Len(segments) >= 1
        /\ \A i \in 1..Len(segments) : Trim(segments[i]) # <<>>

\* The handler answered with the Argument Gate's rejection.
GateRejected ==
    /\ rtPc = "sent"
    /\ response[1].status = 200
    /\ ~response[1].success

\* C29: a request is rejected as non-argumentative only when detectArgument
\* returned isArgumentative = false with confidence above 0.85; a request
\* whose text holds an inference marker, or whose detector AI call failed,
\* goes on to the selected module.
C29_GateOnlyOnConfidentNegative ==
    /\ GateRejected =>
          /\ detPc = "done"
          /\ detResult[1].isArgumentative = FALSE
          /\ detResult[1].confidence > 85
    /\ (rtPc \in {"module", "respond", "sent"} /\ detPc = "done"
          /\ (hasInferenceMarkers(text) \/ DetectAIPathFailed)) =>
          /\ ~GateRejected
          /\ modPc # "off"
          /\ caller = AnalyzerOf(moduleType)

\* A request without a marker was rejected on the detector's answer
\* {false, 0.9}.
C29_Witness ==
    /\ GateRejected
    /\ ~hasInferenceMarkers(text)
    /\ detResult[1].confidence = 90
    /\ modPc = "off"
    /\ saveLog = <<>>

\* C30: saveAnalysis is called at most once per request, only after the
\* module call returned its result, and never for a request that was
\* rejected or whose module call failed.
C30_SaveOnceAfterSuccess ==
    /\ Len(saveLog) <= 1
    /\ saveLog # <<>> =>
          /\ modPc = "done"
          /\ rtPc \in {"respond", "sent"}
          /\ modResult = <<saveLog[1].result>>
    /\ (rtPc = "sent" /\ ~response[1].success) => saveLog = <<>>

\* A request was answered with its result after one successful save.
C30_Witness ==
    /\ rtPc = "sent"
    /\ response[1].success
    /\ Len(saveLog) = 1
    /\ saveLog[1].ok
    /\ response[1].result = <<saveLog[1].result>>

====
